---- MODULE Spec2Model ----
(***************************************************************************)
(* A model of the invest benchmark: the Messenger (session-aware remote    *)
(* invocation client), the Evaluator run and the research Agent run.       *)
(*                                                                         *)
(* Conventions                                                             *)
(*  - Python None in a string-valued slot is the string None.              *)
(*  - A Python dict is a function whose domain is its key set; the empty   *)
(*    dict is the function with the empty domain.                          *)
(*  - A Python str that the code only joins, parses or scans is a          *)
(*    sequence of lines; a line is a record that says what the line holds. *)
(*    The empty string is the one-line string holding a blank line.        *)
(*  - Confidences are in thousandths (0.55 is 550), percentages in whole   *)
(*    percents.                                                            *)
(***************************************************************************)
EXTENDS Integers, Sequences, FiniteSets, TLC

VARIABLES
    context_ids,    \* Messenger._context_ids : url -> context id
    m_last,         \* the last Messenger operation and what it did
    m_log,          \* every Messenger operation so far, in order
    u_in,           \* send_message taken alone: the event stream it is given
    u_out,          \* send_message taken alone: what it returned
    ev,             \* the Evaluator runs: run id -> the run's local state
    ag              \* the research agent's run

mvars == <<context_ids, m_last, m_log>>
uvars == <<u_in, u_out>>
others_m == <<u_in, u_out, ev, ag>>
vars == <<context_ids, m_last, m_log, u_in, u_out, ev, ag>>

None == "<None>"

(***************************************************************************)
(* Bounds of the model.                                                    *)
(***************************************************************************)
MaxLog == 3         \* Messenger operations in one behaviour
MaxStream == 2      \* events in one reply stream
MaxParts == 2       \* parts in a status message
MaxArtifacts == 2   \* artifacts attached to a task

(***************************************************************************)
(* Small helpers.                                                          *)
(***************************************************************************)
EmptyDict == [k \in {} |-> None]

DictGet(d, k) == IF k \in DOMAIN d THEN d[k] ELSE None

\* An assignment that keeps the value a key already has.
DictSet_KeepFirst(d, k, v) ==
    [x \in (DOMAIN d) \cup {k} |-> IF x \in DOMAIN d THEN d[x] ELSE v]

DictSet(d, k, v) == [x \in (DOMAIN d) \cup {k} |-> IF x = k THEN v ELSE d[x]]

SeqsUpTo(S, n) == UNION {[1..k -> S] : k \in 0..n}

RECURSIVE Flatten(_)
Flatten(ss) ==
    IF ss = <<>> THEN <<>> ELSE Head(ss) \o Flatten(Tail(ss))

BlankLine == [kind |-> "blank"]
EmptyStr == <<BlankLine>>

\* "\n".join(texts): the lines of the fragments, in order; "" for no fragment.
JoinNewline(texts) ==
    IF texts = <<>> THEN EmptyStr ELSE Flatten(texts)

(***************************************************************************)
(* a2a parts, messages and tasks, as messenger.py reads them.              *)
(***************************************************************************)
TextPart(t) == [kind |-> "text", text |-> t]
DataPart(d) == [kind |-> "data", data |-> d]
FilePart == [kind |-> "file"]

Message(ctx, parts) ==
    [kind |-> "message", context_id |-> ctx, parts |-> parts]

NoStatusMessage == [present |-> FALSE, parts |-> <<>>]
StatusMessage(parts) == [present |-> TRUE, parts |-> parts]

\* The (task, update) pair: only the task is read.
TaskEvent(ctx, state, status_msg, artifacts) ==
    [kind |-> "task", context_id |-> ctx, state |-> state,
     status_message |-> status_msg, artifacts |-> artifacts]

\* _collect_parts: the texts and the data of the parts, each in part order;
\* a part that is neither text nor data is skipped.
_collect_parts(parts) ==
    LET T == SelectSeq(parts, LAMBDA p : p.kind = "text")
        D == SelectSeq(parts, LAMBDA p : p.kind = "data")
    IN  [texts |-> [i \in 1..Len(T) |-> T[i].text],
         data |-> [i \in 1..Len(D) |-> D[i].data]]

\* create_message: the outbound message; only its context id is modelled
\* (the text is the caller's, the message id is fresh).
create_message(context_id) == [kind |-> "message", context_id |-> context_id]

\* The artifacts loop of send_message: every artifact's data, artifact by
\* artifact and part by part.
ArtifactData(artifacts) ==
    Flatten([i \in 1..Len(artifacts) |-> _collect_parts(artifacts[i]).data])

TaskDataParts_StatusFirst(task) ==
    LET status_data ==
            IF task.status_message.present
            THEN _collect_parts(task.status_message.parts).data
            ELSE <<>>
    IN  status_data \o ArtifactData(task.artifacts)

\* The data_parts of a task reply: the artifacts' data is put on the list
\* first, the status message's data after it.
TaskDataParts(task) ==
    LET status_data ==
            IF task.status_message.present
            THEN _collect_parts(task.status_message.parts).data
            ELSE <<>>
    IN  ArtifactData(task.artifacts) \o status_data

\* The outputs dict before the reply is read.
InitialOutputs ==
    [response_text |-> EmptyStr, context_id |-> None, data_parts |-> <<>>]

\* send_message reading the first event of the stream instead of the last.
send_message_FirstEvent(stream, context_id) ==
    LET outbound_msg == create_message(context_id)
        outputs ==
            IF stream = <<>> THEN InitialOutputs
            ELSE LET last_event == stream[1]
                 IN  IF last_event.kind = "message"
                     THEN LET c == _collect_parts(last_event.parts)
                          IN  [response_text |-> JoinNewline(c.texts),
                               context_id |-> last_event.context_id,
                               data_parts |-> c.data]
                     ELSE IF last_event.kind = "task"
                     THEN LET c == IF last_event.status_message.present
                                   THEN _collect_parts(last_event.status_message.parts)
                                   ELSE [texts |-> <<>>, data |-> <<>>]
                          IN  [response_text |-> JoinNewline(c.texts),
                               context_id |-> last_event.context_id,
                               data_parts |-> TaskDataParts(last_event),
                               status |-> last_event.state]
                     ELSE InitialOutputs
    IN  [outbound |-> outbound_msg, outputs |-> outputs]

\* send_message: the outbound message and the outputs dict built from the
\* LAST event of the stream. The key "status" exists for a task reply only.
send_message(stream, context_id) ==
    LET outbound_msg == create_message(context_id)
        outputs ==
            IF stream = <<>> THEN InitialOutputs
            ELSE LET last_event == stream[Len(stream)]
                 IN  IF last_event.kind = "message"
                     THEN LET c == _collect_parts(last_event.parts)
                          IN  [response_text |-> JoinNewline(c.texts),
                               context_id |-> last_event.context_id,
                               data_parts |-> c.data]
                     ELSE IF last_event.kind = "task"
                     THEN LET c == IF last_event.status_message.present
                                   THEN _collect_parts(last_event.status_message.parts)
                                   ELSE [texts |-> <<>>, data |-> <<>>]
                          IN  [response_text |-> JoinNewline(c.texts),
                               context_id |-> last_event.context_id,
                               data_parts |-> TaskDataParts(last_event),
                               status |-> last_event.state]
                     ELSE InitialOutputs
    IN  [outbound |-> outbound_msg, outputs |-> outputs]

(***************************************************************************)
(* Messenger.                                                              *)
(***************************************************************************)
OutboundContext_Reuses(ids, url, new_conversation) == DictGet(ids, url)

\* The context id talk_to_agent hands to send_message.
OutboundContext(ids, url, new_conversation) ==
    IF new_conversation THEN None ELSE DictGet(ids, url)

\* A reply without a status read as a failure.
StatusOrCompleted_Strict(outputs) ==
    IF "status" \in DOMAIN outputs THEN outputs.status ELSE "failed"

\* outputs.get("status", "completed")
StatusOrCompleted(outputs) ==
    IF "status" \in DOMAIN outputs THEN outputs.status ELSE "completed"

NonCompleted_OnlyFailed(outputs) == StatusOrCompleted(outputs) = "failed"

NonCompleted_Never(outputs) == FALSE

\* talk_to_agent raises when this holds.
NonCompleted(outputs) == StatusOrCompleted(outputs) # "completed"

StoreContext_Dropped(ids, url, outputs) == ids

\* self._context_ids[url] = outputs.get("context_id")
StoreContext(ids, url, outputs) == DictSet(ids, url, outputs.context_id)

ResetContexts_KeepsAgent ==
    [u \in (DOMAIN context_ids) \cap {"http://agent:9119"} |-> context_ids[u]]

\* Messenger.reset
ResetContexts == EmptyDict

NoError == [kind |-> "no error"]
NoResult == [kind |-> "no result"]

\* A call that stores the reply's context id also when it raises.
TalkReply_StoresOnFailure(ids, url, new_conversation, sent_ctx, stream) ==
    LET sm == send_message(stream, sent_ctx)
        raised == NonCompleted(sm.outputs)
    IN  [op |-> "talk", url |-> url, new_conversation |-> new_conversation,
         stream |-> stream,
         outbound |-> sm.outbound,
         raised |-> raised,
         error |-> IF raised THEN [url |-> url, outputs |-> sm.outputs] ELSE NoError,
         result |-> IF raised THEN NoResult ELSE sm.outputs,
         ids |-> StoreContext(ids, url, sm.outputs)]

\* What talk_to_agent does once the reply stream is in, the context id of
\* the outbound message having been fixed when the call was made: whether it
\* raises (and the payload the error carries), what it returns, and the
\* session map it leaves.
TalkReply(ids, url, new_conversation, sent_ctx, stream) ==
    LET sm == send_message(stream, sent_ctx)
        raised == NonCompleted(sm.outputs)
    IN  [op |-> "talk", url |-> url, new_conversation |-> new_conversation,
         stream |-> stream,
         outbound |-> sm.outbound,
         raised |-> raised,
         error |-> IF raised THEN [url |-> url, outputs |-> sm.outputs] ELSE NoError,
         result |-> IF raised THEN NoResult ELSE sm.outputs,
         ids |-> IF raised THEN ids ELSE StoreContext(ids, url, sm.outputs)]

\* One whole talk_to_agent call of a caller that nothing interleaves with.
talk_to_agent(ids, url, new_conversation, stream) ==
    TalkReply(ids, url, new_conversation,
              OutboundContext(ids, url, new_conversation), stream)

(***************************************************************************)
(* Inputs of the Messenger specification.                                  *)
(***************************************************************************)
Urls == {"http://agent:9119", "http://other:9120"}
CtxIds == {"ctx-1", "ctx-2"}
ReplyCtx == CtxIds \cup {None}
TaskStates == {"completed", "failed", "working"}

PlainLine(w) == [kind |-> "plain", word |-> w]
DataA == [run_id |-> "a"]
DataB == [run_id |-> "b"]

SessionEvents ==
    {Message(c, <<TextPart(<<PlainLine("hello")>>)>>) : c \in ReplyCtx}
    \cup {TaskEvent(c, "completed", NoStatusMessage, <<<<DataPart(DataA)>>>>) : c \in ReplyCtx}
    \cup {TaskEvent("ctx-1", s, StatusMessage(<<TextPart(<<PlainLine("oops")>>)>>), <<>>) :
            s \in TaskStates \ {"completed"}}

\* A partial update that precedes the final event of a stream: a working
\* task with a session id, a progress text and data of its own.
PartialUpdate ==
    TaskEvent("ctx-2", "working",
              StatusMessage(<<TextPart(<<PlainLine("progress")>>), DataPart(DataB)>>),
              <<<<DataPart(DataB)>>>>)

SessionStreams ==
    {<<>>} \cup {[i \in 1..k |-> PartialUpdate] \o <<e>> :
                    k \in 0..(MaxStream - 1), e \in SessionEvents}

NoCall == [op |-> "none"]

LogEntry(r) ==
    [op |-> "talk", url |-> r.url, new_conversation |-> r.new_conversation,
     sent |-> r.outbound.context_id, ok |-> ~r.raised,
     reply_ctx |-> IF r.raised THEN None ELSE r.result.context_id]

ResetEntry == [op |-> "reset"]

MessengerInit ==
    /\ context_ids = EmptyDict
    /\ m_last = NoCall
    /\ m_log = <<>>

TalkToAgent ==
    /\ Len(m_log) < MaxLog
    /\ \E url \in Urls, new_conversation \in BOOLEAN, stream \in SessionStreams :
         LET r == talk_to_agent(context_ids, url, new_conversation, stream)
         IN  /\ context_ids' = r.ids
             /\ m_last' = r
             /\ m_log' = Append(m_log, LogEntry(r))
    /\ UNCHANGED others_m

Reset ==
    /\ Len(m_log) < MaxLog
    /\ context_ids' = ResetContexts
    /\ m_last' = ResetEntry
    /\ m_log' = Append(m_log, ResetEntry)
    /\ UNCHANGED others_m

UnwrapIdle == u_in = <<>> /\ u_out = NoCall

NoRuns == ev = EmptyDict

AgentIdle == ag = [pc |-> "idle"]

SpecMessengerInit == MessengerInit /\ UnwrapIdle /\ NoRuns /\ AgentIdle

SpecMessengerNext == TalkToAgent \/ Reset

SpecMessenger == SpecMessengerInit /\ [][SpecMessengerNext]_vars

(***************************************************************************)
(* send_message taken alone, on richer replies than the session            *)
(* specification needs: the reply is drawn when the call is made.          *)
(***************************************************************************)
DataC == [run_id |-> "c"]

StatusPartAlphabet ==
    {TextPart(<<PlainLine("note")>>), DataPart(DataA), DataPart(DataB)}

ArtifactPartLists ==
    {<<>>,
     <<DataPart(DataC)>>,
     <<TextPart(<<PlainLine("summary")>>), DataPart(DataA)>>,
     <<DataPart(DataB), DataPart(DataC)>>}

UnwrapEvents ==
    {Message("ctx-1", p) : p \in SeqsUpTo(StatusPartAlphabet, MaxParts)}
    \cup {TaskEvent("ctx-1", s, m, a) :
            s \in {"completed", "failed"},
            m \in {NoStatusMessage}
                  \cup {StatusMessage(p) : p \in SeqsUpTo(StatusPartAlphabet, MaxParts)},
            a \in SeqsUpTo(ArtifactPartLists, MaxArtifacts)}

UnwrapStreams ==
    {[i \in 1..k |-> PartialUpdate] \o <<e>> :
        k \in 0..(MaxStream - 1), e \in UnwrapEvents}

Unwrap ==
    /\ u_out = NoCall
    /\ u_out' = send_message(u_in, None).outputs
    /\ UNCHANGED <<u_in, context_ids, m_last, m_log, ev, ag>>

SpecUnwrapInit ==
    /\ MessengerInit
    /\ u_in \in UnwrapStreams
    /\ u_out = NoCall
    /\ NoRuns
    /\ AgentIdle

SpecUnwrapNext == Unwrap

SpecUnwrap == SpecUnwrapInit /\ [][SpecUnwrapNext]_vars

(***************************************************************************)
(* Evaluator: request and configuration.                                   *)
(***************************************************************************)
MaxDecisions == 2   \* decisions in one reply of the research agent

\* The defaults with a threshold of 0.35.
DefaultConfig_Threshold35 ==
    [tickers |-> <<"RR">>,
     target_date |-> "12/31/2025",
     target_increase_pct |-> 35,
     research_window |-> [start |-> "06/01/2025", end |-> "09/30/2025"],
     verify_window |-> [start |-> "12/01/2025", end |-> "12/31/2025"],
     base_query |-> None,
     max_results |-> 12,
     max_tokens |-> 12000,
     max_tokens_per_page |-> 2048,
     country |-> None]

\* EvalConfig's defaults. target_increase_pct is in hundredths (0.30 is 30).
DefaultConfig ==
    [tickers |-> <<"RR">>,
     target_date |-> "12/31/2025",
     target_increase_pct |-> 30,
     research_window |-> [start |-> "06/01/2025", end |-> "09/30/2025"],
     verify_window |-> [start |-> "12/01/2025", end |-> "12/31/2025"],
     base_query |-> None,
     max_results |-> 12,
     max_tokens |-> 12000,
     max_tokens_per_page |-> 2048,
     country |-> None]

\* A supplied config object: the well-typed values it gives, by field name,
\* and the names of the fields whose supplied value fails the field's type.
ConfigObject(fields, bad_fields) == [fields |-> fields, bad_fields |-> bad_fields]

\* EvalConfig(**request.config) raises a ValidationError when this is false.
ConfigValidates(config) == config.bad_fields = {}

\* EvalConfig(**request.config): supplied values over the defaults; a key
\* that is no field of EvalConfig is ignored.
EvalConfig(config) ==
    [k \in DOMAIN DefaultConfig |->
        IF k \in DOMAIN config.fields THEN config.fields[k] ELSE DefaultConfig[k]]

\* str(HttpUrl): the url as pydantic renders it (a bare host gets the path /).
HttpUrlStr(raw) ==
    CASE raw = "http://localhost:9119" -> "http://localhost:9119/"
      [] raw = "http://localhost:9120" -> "http://localhost:9120/"
      [] OTHER -> raw

required_roles_Judge == {"judge"}

required_roles == {"agent"}

\* validate_request
validate_request(request) ==
    LET missing_roles == required_roles \ DOMAIN request.participants
    IN  IF missing_roles # {}
        THEN [ok |-> FALSE, msg |-> [kind |-> "Missing roles", roles |-> missing_roles]]
        ELSE [ok |-> TRUE, msg |-> [kind |-> "ok", roles |-> {}]]

\* The workload sent to the research agent.
Workload(cfg) ==
    [tickers |-> cfg.tickers,
     target_date |-> cfg.target_date,
     target_increase_pct |-> cfg.target_increase_pct,
     research_window |-> cfg.research_window,
     base_query |-> cfg.base_query,
     max_results |-> cfg.max_results,
     max_tokens |-> cfg.max_tokens,
     max_tokens_per_page |-> cfg.max_tokens_per_page,
     country |-> cfg.country]

(***************************************************************************)
(* Evaluator: search and ground truth.                                     *)
(*                                                                         *)
(* A title or a snippet is None or a sequence of tokens: a word, a number  *)
(* followed by a percent sign (in tenths of a percent), or the phrase      *)
(* "thirty percent".                                                       *)
(***************************************************************************)
NoText == [present |-> FALSE, toks |-> <<>>]
Text(toks) == [present |-> TRUE, toks |-> toks]
Word(w) == [kind |-> "word", word |-> w]
Pct(tenths) == [kind |-> "pct", tenths |-> tenths]
ThirtyPercent == [kind |-> "thirty percent"]

\* r.get(key, "") or ""
TextOrEmpty(t) == IF t.present THEN t.toks ELSE <<>>

\* _default_query of the evaluator
EvalDefaultQuery(ticker) ==
    [template |-> "{ticker} share price performance December 2025 30% increase",
     ticker |-> ticker]

\* cfg.base_query.replace("{ticker}", ticker) if cfg.base_query else _default_query(ticker)
VerifyQuery(cfg, ticker) ==
    IF cfg.base_query # None /\ cfg.base_query # ""
    THEN [template |-> cfg.base_query, ticker |-> ticker]
    ELSE EvalDefaultQuery(ticker)

\* _run_search: the call made to the search provider.
_run_search(query, window, cfg) ==
    [query |-> query,
     max_results |-> cfg.max_results,
     max_tokens |-> cfg.max_tokens,
     max_tokens_per_page |-> cfg.max_tokens_per_page,
     search_after_date_filter |-> window.start,
     search_before_date_filter |-> window.end,
     country |-> cfg.country]

Max(a, b) == IF a >= b THEN a ELSE b
Min(a, b) == IF a <= b THEN a ELSE b

\* _extract_max_percentage, in tenths of a percent
RECURSIVE _extract_max_percentage(_)
_extract_max_percentage(toks) ==
    IF toks = <<>> THEN 0
    ELSE LET t == Head(toks)
             rest == _extract_max_percentage(Tail(toks))
         IN  IF t.kind = "pct" THEN Max(t.tenths, rest)
             ELSE IF t.kind = "thirty percent" THEN Max(300, rest)
             ELSE rest

\* threshold_pct * 100 as the float product comes out: the exact value in
\* tenths of a percent, and the sign of the rounding error of the product
\* (0.07 * 100 is 7.000000000000001).
ThresholdTimes100(hundredths) ==
    [tenths |-> hundredths * 10,
     excess |-> CASE hundredths = 7 -> 1
                  [] hundredths = 29 -> -1
                  [] OTHER -> 0]

\* max_pct >= threshold_pct * 100
ReachesThreshold(max_pct, hundredths) ==
    LET t == ThresholdTimes100(hundredths)
    IN  max_pct > t.tenths \/ (max_pct = t.tenths /\ t.excess <= 0)

\* The non-empty titles, then the non-empty snippets, joined.
Corpus(results) ==
    Flatten([i \in 1..Len(results) |-> TextOrEmpty(results[i].title)])
    \o Flatten([i \in 1..Len(results) |-> TextOrEmpty(results[i].snippet)])

\* _infer_truth
_infer_truth(results, threshold_pct) ==
    IF results = <<>>
    THEN [truth |-> FALSE, rationale |-> [kind |-> "No December 2025 evidence found.", max_pct |-> 0]]
    ELSE LET max_pct == _extract_max_percentage(Corpus(results))
         IN  IF ReachesThreshold(max_pct, threshold_pct)
             THEN [truth |-> TRUE, rationale |-> [kind |-> "Found mention of move", max_pct |-> max_pct]]
             ELSE [truth |-> FALSE, rationale |-> [kind |-> "Max move mentioned below threshold", max_pct |-> max_pct]]

(***************************************************************************)
(* Evaluator: reading the research agent's reply.                          *)
(***************************************************************************)
\* item.get("decisions") is truthy
HasDecisions(item) == "decisions" \in DOMAIN item /\ item.decisions # <<>>

RECURSIVE FirstWithDecisions(_)
FirstWithDecisions(data_parts) ==
    IF data_parts = <<>> THEN <<>>
    ELSE IF HasDecisions(Head(data_parts)) THEN <<Head(data_parts)>>
    ELSE FirstWithDecisions(Tail(data_parts))

\* _pick_data_part
_pick_data_part(data_parts) ==
    LET hit == FirstWithDecisions(data_parts)
    IN  IF hit # <<>> THEN hit[1]
        ELSE IF data_parts # <<>> THEN data_parts[1] ELSE EmptyDict

JsonLine(value) == [kind |-> "json", value |-> value]
JsonObject(obj) == [jtype |-> "object", obj |-> obj]
JsonArray == [jtype |-> "array"]

\* json.loads: blank lines around the document are white space; anything
\* but one JSON document raises.
json_loads(text) ==
    LET body == SelectSeq(text, LAMBDA l : l.kind # "blank")
    IN  IF Len(body) = 1 /\ body[1].kind = "json"
        THEN [raised |-> FALSE, value |-> body[1].value]
        ELSE [raised |-> TRUE, value |-> JsonObject(EmptyDict)]

\* The decisions payload run() settles on: the picked data part when it is a
\* non-empty dict, else the reply text parsed as JSON, else {}.
DecisionsPayload(agent_outputs) ==
    LET picked == _pick_data_part(agent_outputs.data_parts)
    IN  IF picked # EmptyDict THEN JsonObject(picked)
        ELSE LET parsed == json_loads(agent_outputs.response_text)
             IN  IF parsed.raised THEN JsonObject(EmptyDict) ELSE parsed.value

\* decisions_payload.get("decisions") or []: a payload that is no dict has
\* no get, and the run dies of an AttributeError.
ExtractDecisions(agent_outputs) ==
    LET payload == DecisionsPayload(agent_outputs)
    IN  IF payload.jtype # "object"
        THEN [crashed |-> TRUE, decisions |-> <<>>]
        ELSE [crashed |-> FALSE,
              decisions |-> IF HasDecisions(payload.obj) THEN payload.obj.decisions ELSE <<>>]

\* not ticker
Falsy_OnlyMissing(ticker) == ticker = None

Falsy(ticker) == ticker = None \/ ticker = ""

Passed_UnknownFails(verdict, truth) ==
    (verdict = "increase" /\ truth) \/ (verdict = "no_increase" /\ ~truth)

\* The pass flag of one decision.
Passed(verdict, truth) ==
    (verdict = "increase" /\ truth)
    \/ (verdict \in {"no_increase", "unknown"} /\ ~truth)

\* One ticker result.
TickerResult(decision, results, cfg) ==
    LET t == _infer_truth(results, cfg.target_increase_pct)
    IN  [agent_verdict |-> DictGet(decision, "verdict"),
         truth_increase |-> t.truth,
         rationale |-> t.rationale,
         agent_confidence |-> decision.confidence,
         evidence_checked |-> Len(results),
         pass |-> Passed(DictGet(decision, "verdict"), t.truth)]

\* sum(1 for r in ticker_results.values() if r.get("pass"))
PassedCount(ticker_results) ==
    Cardinality({t \in DOMAIN ticker_results : ticker_results[t].pass})

PassRate_NoPercent(passed, total) ==
    IF total # 0 THEN [num |-> passed, den |-> total]
    ELSE [num |-> 0, den |-> 1]

\* (passed / total * 100) if total else 0.0, as a fraction num / den
PassRate(passed, total) ==
    IF total # 0 THEN [num |-> passed * 100, den |-> total]
    ELSE [num |-> 0, den |-> 1]

\* f"{pass_rate:.1f}", in tenths
FormatOneDecimal(rate) == (2 * 10 * rate.num + rate.den) \div (2 * rate.den)

\* The "Result" artifact.
ResultArtifact(run_id, ticker_results, ticker_order, pass_rate, passed, total) ==
    LET summary_lines ==
            [run_id |-> run_id,
             tickers |-> ticker_order,
             pass_rate |-> FormatOneDecimal(pass_rate),
             passed |-> passed,
             total |-> total]
    IN  [name |-> "Result",
         text |-> summary_lines,
         data |-> [run_id |-> run_id, summary |-> summary_lines,
                   ticker_results |-> ticker_results]]

(***************************************************************************)
(* Evaluator: inputs of the specification.                                 *)
(***************************************************************************)
AgentRaw == "http://localhost:9119"
JudgeRaw == "http://localhost:9120"

Request(participants, config) ==
    [parses |-> TRUE, participants |-> participants, config |-> config]

\* A payload that is no JSON of the EvalRequest shape.
MalformedRequest ==
    [parses |-> FALSE, participants |-> EmptyDict, config |-> ConfigObject(EmptyDict, {})]

EmptyConfig == ConfigObject(EmptyDict, {})

Requests ==
    {MalformedRequest,
     Request(EmptyDict, EmptyConfig),
     Request([judge |-> JudgeRaw], EmptyConfig),
     Request([judge |-> JudgeRaw], ConfigObject(EmptyDict, {"max_results"})),
     Request([agent |-> AgentRaw], EmptyConfig),
     Request([agent |-> AgentRaw, judge |-> JudgeRaw], EmptyConfig),
     Request([agent |-> AgentRaw], ConfigObject([target_increase_pct |-> 7], {})),
     Request([agent |-> AgentRaw],
             ConfigObject([base_query |-> "{ticker} december move"], {})),
     Request([agent |-> AgentRaw], ConfigObject(EmptyDict, {"max_results"}))}

Decision(ticker, verdict, confidence) ==
    [ticker |-> ticker, verdict |-> verdict, confidence |-> confidence]

DecisionSet ==
    {Decision("RR", "increase", 800),
     Decision("RR", "no_increase", 650),
     Decision("AA", "unknown", 350),
     Decision("AA", "increase", 650),
     Decision("", "increase", 800),
     [verdict |-> "unknown", confidence |-> 200],
     Decision("ZZ", "hold", 500)}

DecisionLists == SeqsUpTo(DecisionSet, MaxDecisions)

\* The AgentResponse the research agent puts in its "Decisions" artifact.
AgentResponseData(decisions) ==
    [run_id |-> "agent-run", target_date |-> "12/31/2025",
     target_increase_pct |-> 30, decisions |-> decisions]

RecordedDecisions == <<Decision("RR", "increase", 800)>>

CompletedTask(status_msg, artifacts) ==
    TaskEvent("ctx-1", "completed", status_msg, artifacts)

JsonText(obj) == <<JsonLine(JsonObject(obj))>>

EvalReplies ==
    {CompletedTask(NoStatusMessage, <<<<DataPart(AgentResponseData(d))>>>>) :
        d \in DecisionLists}
    \cup
    {CompletedTask(NoStatusMessage,
        <<<<DataPart(DataA), DataPart(AgentResponseData(RecordedDecisions))>>>>),
     CompletedTask(StatusMessage(<<TextPart(JsonText(AgentResponseData(RecordedDecisions)))>>),
        <<<<DataPart(DataA)>>>>),
     CompletedTask(StatusMessage(<<TextPart(JsonText(AgentResponseData(RecordedDecisions)))>>),
        <<<<DataPart(AgentResponseData(<<>>))>>>>),
     CompletedTask(StatusMessage(<<TextPart(JsonText(AgentResponseData(RecordedDecisions)))>>),
        <<<<DataPart(EmptyDict)>>>>),
     CompletedTask(StatusMessage(<<TextPart(JsonText(AgentResponseData(RecordedDecisions)))>>),
        <<>>),
     CompletedTask(StatusMessage(<<TextPart(<<PlainLine("done")>>)>>), <<>>),
     CompletedTask(StatusMessage(<<TextPart(<<JsonLine(JsonArray)>>)>>), <<>>),
     Message("ctx-2", <<DataPart(AgentResponseData(RecordedDecisions))>>),
     TaskEvent("ctx-1", "failed", StatusMessage(<<TextPart(<<PlainLine("oops")>>)>>), <<>>),
     TaskEvent("ctx-1", "canceled", NoStatusMessage,
               <<<<DataPart(AgentResponseData(RecordedDecisions))>>>>)}

EvalStreams ==
    {<<>>} \cup {[i \in 1..k |-> PartialUpdate] \o <<e>> :
                    k \in 0..(MaxStream - 1), e \in EvalReplies}

Result33 ==
    [title |-> Text(<<Word("RR"), Word("jumped"), Pct(330)>>),
     snippet |-> Text(<<Word("gained"), Pct(330), Word("bullish")>>)]
Result12 == [title |-> Text(<<Word("rose"), Pct(120)>>), snippet |-> NoText]
ResultThirty == [title |-> NoText, snippet |-> Text(<<Word("up"), ThirtyPercent>>)]
Result7 == [title |-> Text(<<Pct(70)>>), snippet |-> Text(<<>>)]

\* What the search provider answers: the results, or the error shape (no
\* result and an error string) when the provider call fails.
SearchOutcome(results, error) == [results |-> results, error |-> error]

VerifyOutcomes ==
    {SearchOutcome(r, FALSE) :
        r \in {<<>>, <<Result33>>, <<Result12>>, <<Result12, ResultThirty>>, <<Result7>>}}
    \cup {SearchOutcome(<<>>, TRUE)}

(***************************************************************************)
(* Evaluator: the run. A run's state is its position (pc), its locals and  *)
(* what it did to the task updater (trace, reject_msg, artifacts).         *)
(***************************************************************************)
NoRequest == [parses |-> FALSE, participants |-> EmptyDict, config |-> EmptyConfig]
NoMessage == [kind |-> "no message"]

NewRun ==
    [pc |-> "received",
     request |-> NoRequest,
     cfg |-> DefaultConfig,
     agent_url |-> None,
     outbound |-> NoMessage,
     reply_stream |-> <<>>,
     agent_outputs |-> NoResult,
     decisions |-> <<>>,
     idx |-> 1,
     ticker_results |-> EmptyDict,
     ticker_order |-> <<>>,
     searches |-> <<>>,
     passed |-> 0,
     total |-> 0,
     pass_rate |-> [num |-> 0, den |-> 1],
     artifacts |-> <<>>,
     reject_msg |-> [kind |-> "none", roles |-> {}],
     error |-> "none",
     trace |-> <<>>]

EvaluatorInit(runs) == ev = [r \in runs |-> NewRun]

\* What the environment hands to a run: every input when one run is
\* followed; when two runs go through one Messenger, two configs, a task
\* reply, a message reply with two decisions, a failed task, a found result
\* and a provider failure.
RunInputs ==
    IF Cardinality(DOMAIN ev) = 1
    THEN [requests |-> Requests, streams |-> EvalStreams, outcomes |-> VerifyOutcomes]
    ELSE [requests |->
            {Request([agent |-> AgentRaw], EmptyConfig),
             Request([agent |-> AgentRaw],
                     ConfigObject([target_increase_pct |-> 7], {}))},
          streams |->
            {<<CompletedTask(NoStatusMessage,
                             <<<<DataPart(AgentResponseData(RecordedDecisions))>>>>)>>,
             <<Message("ctx-2",
                       <<DataPart(AgentResponseData(
                                    <<Decision("RR", "no_increase", 650),
                                      Decision("AA", "increase", 650)>>))>>)>>,
             <<TaskEvent("ctx-1", "failed",
                         StatusMessage(<<TextPart(<<PlainLine("oops")>>)>>), <<>>)>>},
          outcomes |-> {SearchOutcome(<<Result12>>, FALSE), SearchOutcome(<<>>, TRUE)}]

\* self.run_id is drawn once, when the Agent instance is built: every run of
\* the instance reports the same id.
RunId(r) == 1

SetRun(r, changes) ==
    ev' = [ev EXCEPT ![r] =
            [f \in DOMAIN ev[r] |-> IF f \in DOMAIN changes THEN changes[f] ELSE ev[r][f]]]

\* run(), from the top to the first thing it tells the updater: the request
\* is parsed, its roles are checked, the config is built (outside the try:
\* a ValidationError there is not caught) and the working status is reported.
Start ==
    \E r \in DOMAIN ev :
    /\ ev[r].pc = "received"
    /\ \E request \in RunInputs.requests :
         IF ~request.parses
         THEN SetRun(r, [pc |-> "rejected", request |-> request,
                         reject_msg |-> [kind |-> "Invalid request", roles |-> {}],
                         trace |-> Append(ev[r].trace, "reject")])
         ELSE LET v == validate_request(request)
              IN  IF ~v.ok
                  THEN SetRun(r, [pc |-> "rejected", request |-> request,
                                  reject_msg |-> v.msg,
                                  trace |-> Append(ev[r].trace, "reject")])
                  ELSE IF ~ConfigValidates(request.config)
                  THEN SetRun(r, [pc |-> "aborted", request |-> request,
                                  error |-> "ValidationError"])
                  ELSE IF "agent" \notin DOMAIN request.participants
                  THEN SetRun(r, [pc |-> "aborted", request |-> request,
                                  cfg |-> EvalConfig(request.config),
                                  error |-> "KeyError"])
                  ELSE SetRun(r, [pc |-> "working", request |-> request,
                                  cfg |-> EvalConfig(request.config),
                                  agent_url |-> HttpUrlStr(request.participants["agent"]),
                                  trace |-> Append(ev[r].trace, "status:working")])
    /\ UNCHANGED <<context_ids, m_last, m_log, u_in, u_out, ag>>

\* The call addressed to the judge's endpoint.
CallAgent_ToJudge ==
    \E r \in DOMAIN ev :
    /\ ev[r].pc = "working"
    /\ SetRun(r, [pc |-> "awaiting_agent",
                  outbound |-> [to |-> HttpUrlStr(JudgeRaw),
                                text |-> Workload(ev[r].cfg),
                                context_id |-> OutboundContext(context_ids, ev[r].agent_url, TRUE)],
                  trace |-> Append(ev[r].trace, "send")])
    /\ UNCHANGED <<context_ids, m_last, m_log, u_in, u_out, ag>>

\* The call made as a continuation of the conversation stored for the agent.
CallAgent_Continues ==
    \E r \in DOMAIN ev :
    /\ ev[r].pc = "working"
    /\ SetRun(r, [pc |-> "awaiting_agent",
                  outbound |-> [to |-> ev[r].agent_url,
                                text |-> Workload(ev[r].cfg),
                                context_id |-> OutboundContext(context_ids, ev[r].agent_url, FALSE)],
                  trace |-> Append(ev[r].trace, "send")])
    /\ UNCHANGED <<context_ids, m_last, m_log, u_in, u_out, ag>>

\* talk_to_agent, up to the point where the outbound message is on the wire.
CallAgent ==
    \E r \in DOMAIN ev :
    /\ ev[r].pc = "working"
    /\ SetRun(r, [pc |-> "awaiting_agent",
                  outbound |-> [to |-> ev[r].agent_url,
                                text |-> Workload(ev[r].cfg),
                                context_id |-> OutboundContext(context_ids, ev[r].agent_url, TRUE)],
                  trace |-> Append(ev[r].trace, "send")])
    /\ UNCHANGED <<context_ids, m_last, m_log, u_in, u_out, ag>>

\* The reply stream ends: talk_to_agent raises or returns, and on a return
\* run() reads the decisions out of the reply.
AgentReply ==
    \E r \in DOMAIN ev :
    /\ ev[r].pc = "awaiting_agent"
    /\ \E stream \in RunInputs.streams :
         LET t == TalkReply(context_ids, ev[r].agent_url, TRUE,
                            ev[r].outbound.context_id, stream)
             x == ExtractDecisions(t.result)
         IN  /\ context_ids' = t.ids
             /\ m_last' = t
             /\ m_log' = Append(m_log, LogEntry(t))
             /\ IF t.raised
                THEN SetRun(r, [pc |-> "aborted", reply_stream |-> stream,
                                error |-> "RuntimeError"])
                ELSE IF x.crashed
                THEN SetRun(r, [pc |-> "aborted", reply_stream |-> stream,
                                agent_outputs |-> t.result,
                                error |-> "AttributeError"])
                ELSE SetRun(r, [pc |-> "verifying", reply_stream |-> stream,
                                agent_outputs |-> t.result,
                                decisions |-> x.decisions, idx |-> 1])
    /\ UNCHANGED <<u_in, u_out, ag>>

\* One pass of the loop over the decisions: a decision with no ticker is
\* skipped; for any other one search is run over the verify window and the
\* ticker's result is written.
Verify ==
    \E r \in DOMAIN ev :
    /\ ev[r].pc = "verifying"
    /\ ev[r].idx <= Len(ev[r].decisions)
    /\ LET decision == ev[r].decisions[ev[r].idx]
           ticker == DictGet(decision, "ticker")
       IN  IF Falsy(ticker)
           THEN SetRun(r, [idx |-> ev[r].idx + 1])
           ELSE \E outcome \in RunInputs.outcomes :
                  LET call == _run_search(VerifyQuery(ev[r].cfg, ticker),
                                          ev[r].cfg.verify_window, ev[r].cfg)
                  IN  SetRun(r,
                        [idx |-> ev[r].idx + 1,
                         searches |-> Append(ev[r].searches,
                                        [call |-> call, idx |-> ev[r].idx,
                                         outcome |-> outcome]),
                         ticker_results |->
                            DictSet(ev[r].ticker_results, ticker,
                                    TickerResult(decision, outcome.results, ev[r].cfg)),
                         ticker_order |->
                            IF ticker \in DOMAIN ev[r].ticker_results
                            THEN ev[r].ticker_order
                            ELSE Append(ev[r].ticker_order, ticker),
                         trace |-> Append(ev[r].trace, "search")])
    /\ UNCHANGED <<context_ids, m_last, m_log, u_in, u_out, ag>>

\* After the loop: the totals, the pass rate and the "Result" artifact.
Emit ==
    \E r \in DOMAIN ev :
    /\ ev[r].pc = "verifying"
    /\ ev[r].idx > Len(ev[r].decisions)
    /\ LET total == Cardinality(DOMAIN ev[r].ticker_results)
           passed == PassedCount(ev[r].ticker_results)
       IN  SetRun(r, [pc |-> "emitted",
                      total |-> total,
                      passed |-> passed,
                      pass_rate |-> PassRate(passed, total),
                      artifacts |-> Append(ev[r].artifacts,
                                      ResultArtifact(RunId(r), ev[r].ticker_results,
                                                     ev[r].ticker_order,
                                                     PassRate(passed, total), passed, total)),
                      trace |-> Append(ev[r].trace, "artifact:Result")])
    /\ UNCHANGED <<context_ids, m_last, m_log, u_in, u_out, ag>>

\* Completion without the reset of the Messenger.
Finish_NoReset ==
    \E r \in DOMAIN ev :
    /\ ev[r].pc = "emitted"
    /\ SetRun(r, [pc |-> "completed", trace |-> Append(ev[r].trace, "complete")])
    /\ UNCHANGED <<context_ids, m_last, m_log, u_in, u_out, ag>>

\* self.messenger.reset(), then updater.complete().
Finish ==
    \E r \in DOMAIN ev :
    /\ ev[r].pc = "emitted"
    /\ context_ids' = ResetContexts
    /\ m_last' = ResetEntry
    /\ m_log' = Append(m_log, ResetEntry)
    /\ SetRun(r, [pc |-> "completed",
                  trace |-> ev[r].trace \o <<"reset", "complete">>])
    /\ UNCHANGED <<u_in, u_out, ag>>

SpecEvaluatorInit ==
    MessengerInit /\ UnwrapIdle /\ AgentIdle /\ EvaluatorInit({1})

SpecEvaluatorNext ==
    Start \/ CallAgent \/ AgentReply \/ Verify \/ Emit \/ Finish

SpecEvaluator == SpecEvaluatorInit /\ [][SpecEvaluatorNext]_vars

\* Two runs of one Agent instance: they go through the same Messenger, and
\* every step of one may fall between two steps of the other.
SpecSharedInit ==
    MessengerInit /\ UnwrapIdle /\ AgentIdle /\ EvaluatorInit({1, 2})

SpecShared == SpecSharedInit /\ [][SpecEvaluatorNext]_vars

(***************************************************************************)
(* Research agent: keyword scoring.                                        *)
(*                                                                         *)
(* A keyword is its sequence of characters. A word of a text is a string;  *)
(* Lower gives the characters of its lower-case form.                      *)
(***************************************************************************)
POSITIVE_KEYWORDS ==
    {<<"b", "e", "a", "t">>,
     <<"r", "e", "c", "o", "r", "d">>,
     <<"p", "r", "o", "f", "i", "t">>,
     <<"p", "r", "o", "f", "i", "t", "a", "b", "i", "l", "i", "t", "y">>,
     <<"g", "r", "o", "w", "t", "h">>,
     <<"u", "p", "g", "r", "a", "d", "e">>,
     <<"r", "a", "i", "s", "e">>,
     <<"s", "u", "r", "g", "e">>,
     <<"s", "o", "a", "r">>,
     <<"r", "a", "l", "l", "y">>,
     <<"s", "t", "r", "o", "n", "g">>,
     <<"b", "u", "l", "l", "i", "s", "h">>,
     <<"m", "o", "m", "e", "n", "t", "u", "m">>,
     <<"g", "u", "i", "d", "a", "n", "c", "e">>}

NEGATIVE_KEYWORDS ==
    {<<"l", "o", "s", "s">>,
     <<"d", "e", "c", "l", "i", "n", "e">>,
     <<"d", "o", "w", "n", "g", "r", "a", "d", "e">>,
     <<"c", "u", "t">>,
     <<"p", "l", "u", "n", "g", "e">>,
     <<"s", "l", "u", "m", "p">>,
     <<"w", "a", "r", "n", "i", "n", "g">>,
     <<"b", "e", "a", "r", "i", "s", "h">>,
     <<"d", "r", "o", "p">>,
     <<"f", "a", "l", "l", "s">>,
     <<"w", "e", "a", "k">>,
     <<"m", "i", "s", "s">>}

Vocabulary ==
    {"Record", "profit", "profitability", "upbeat", "loss", "Missed", "dropped", "flat", "None", "outlook"}

\* str.lower() of a word of the vocabulary
Lower(w) ==
    CASE w = "Record" -> <<"r", "e", "c", "o", "r", "d">>
      [] w = "profit" -> <<"p", "r", "o", "f", "i", "t">>
      [] w = "profitability" -> <<"p", "r", "o", "f", "i", "t", "a", "b", "i", "l", "i", "t", "y">>
      [] w = "upbeat" -> <<"u", "p", "b", "e", "a", "t">>
      [] w = "loss" -> <<"l", "o", "s", "s">>
      [] w = "Missed" -> <<"m", "i", "s", "s", "e", "d">>
      [] w = "dropped" -> <<"d", "r", "o", "p", "p", "e", "d">>
      [] w = "flat" -> <<"f", "l", "a", "t">>
      [] w = "None" -> <<"n", "o", "n", "e">>
      [] w = "outlook" -> <<"o", "u", "t", "l", "o", "o", "k">>

\* Whether keyword kw stands in chars at position i.
MatchesAt(kw, chars, i) ==
    /\ i + Len(kw) - 1 <= Len(chars)
    /\ \A j \in 1..Len(kw) : chars[i + j - 1] = kw[j]

\* str.count: the non-overlapping occurrences of kw in chars, from position i on.
RECURSIVE CountFrom(_, _, _)
CountFrom(kw, chars, i) ==
    IF i > Len(chars) THEN 0
    ELSE IF MatchesAt(kw, chars, i) THEN 1 + CountFrom(kw, chars, i + Len(kw))
    ELSE CountFrom(kw, chars, i + 1)

RECURSIVE SumOver(_, _)
SumOver(f, S) ==
    IF S = {} THEN 0
    ELSE LET x == CHOOSE y \in S : TRUE
         IN  f[x] + SumOver(f, S \ {x})

\* The occurrences of the keywords of a set in one word. No keyword holds
\* white space, so the count over a text is the sum over its words.
KeywordHits(keywords, w) ==
    SumOver([kw \in keywords |-> CountFrom(kw, Lower(w), 1)], keywords)

PositiveHits == [w \in Vocabulary |-> KeywordHits(POSITIVE_KEYWORDS, w)]
NegativeHits == [w \in Vocabulary |-> KeywordHits(NEGATIVE_KEYWORDS, w)]

RECURSIVE SumSeq(_, _)
SumSeq(f, words) ==
    IF words = <<>> THEN 0 ELSE f[Head(words)] + SumSeq(f, Tail(words))

\* _score_sentiment
_score_sentiment(words) == SumSeq(PositiveHits, words) - SumSeq(NegativeHits, words)

(***************************************************************************)
(* Research agent: verdict and evidence.                                   *)
(***************************************************************************)
MaxTickers == 2     \* tickers in one workload

\* f"{title}": the words of a text, the word None for a missing one.
Formatted(t) == IF t.present THEN t.toks ELSE <<"None">>

\* The text blob of _infer_verdict: title and snippet of every result.
TextBlob(results) ==
    Flatten([i \in 1..Len(results) |->
                Formatted(results[i].title) \o Formatted(results[i].snippet)])

Abs(n) == IF n < 0 THEN -n ELSE n

\* The confidence without its cap of 0.9.
CappedConfidence_Uncapped(n) ==
    [thousandths |-> 550 + 100 * n, excess |-> 0]

\* min(0.9, 0.55 + 0.1 * n) for n >= 1 as the float comes out: thousandths,
\* and the sign of the float's error (0.55 + 0.1 * 3 is 0.8500000000000001).
CappedConfidence(n) ==
    IF 550 + 100 * n >= 900
    THEN [thousandths |-> 900, excess |-> 0]
    ELSE [thousandths |-> 550 + 100 * n, excess |-> IF n = 3 THEN 1 ELSE 0]

\* _infer_verdict with the confidence for no evidence taken from the threshold.
_infer_verdict_EmptyByThreshold(results, target_increase_pct) ==
    IF results = <<>>
    THEN [verdict |-> "unknown",
          confidence |-> [thousandths |-> IF target_increase_pct = 30 THEN 200 ELSE 350,
                          excess |-> 0],
          rationale |-> "No search results available in the research window."]
    ELSE LET score == _score_sentiment(TextBlob(results))
         IN  IF score > 0
             THEN [verdict |-> "increase", confidence |-> CappedConfidence(score),
                   rationale |-> "Positive sentiment dominates fundamentals."]
             ELSE IF score < 0
             THEN [verdict |-> "no_increase", confidence |-> CappedConfidence(Abs(score)),
                   rationale |-> "Negative or cautious sentiment dominates."]
             ELSE [verdict |-> "unknown", confidence |-> [thousandths |-> 350, excess |-> 0],
                   rationale |-> "Mixed or neutral fundamentals; unable to project 30%+ gain."]

\* _infer_verdict
_infer_verdict(results, target_increase_pct) ==
    IF results = <<>>
    THEN [verdict |-> "unknown", confidence |-> [thousandths |-> 200, excess |-> 0],
          rationale |-> "No search results available in the research window."]
    ELSE LET score == _score_sentiment(TextBlob(results))
         IN  IF score > 0
             THEN [verdict |-> "increase", confidence |-> CappedConfidence(score),
                   rationale |-> "Positive sentiment dominates fundamentals."]
             ELSE IF score < 0
             THEN [verdict |-> "no_increase", confidence |-> CappedConfidence(Abs(score)),
                   rationale |-> "Negative or cautious sentiment dominates."]
             ELSE [verdict |-> "unknown", confidence |-> [thousandths |-> 350, excess |-> 0],
                   rationale |-> "Mixed or neutral fundamentals; unable to project 30%+ gain."]

\* round(confidence, 3), in thousandths
Round3(confidence) == confidence.thousandths

Evidence(r) == [title |-> r.title, url |-> r.url, date |-> r.date, snippet |-> r.snippet]

\* The evidence list without the limit.
_summarize_evidence_All(results) ==
    [i \in 1..Len(results) |-> Evidence(results[i])]

\* _summarize_evidence with its default limit of 3
_summarize_evidence(results) ==
    LET trimmed == SubSeq(results, 1, Min(3, Len(results)))
    IN  [i \in 1..Len(trimmed) |-> Evidence(trimmed[i])]

\* TickerDecision(...): the field constraint on confidence is ge 0, le 1.
TickerDecisionValidates(confidence) == 0 <= confidence /\ confidence <= 1000

TickerDecision(ticker, results, target_increase_pct) ==
    LET v == _infer_verdict(results, target_increase_pct)
    IN  [ticker |-> ticker,
         verdict |-> v.verdict,
         confidence |-> Round3(v.confidence),
         rationale |-> v.rationale,
         evidence |-> _summarize_evidence(results)]

\* _default_query of the research agent
AgentDefaultQuery(ticker) ==
    [template |-> "{ticker} stock fundamentals outlook 2025 profitability backlog order intake",
     ticker |-> ticker]

ResearchQuery(workload, ticker) ==
    IF workload.base_query # None /\ workload.base_query # ""
    THEN [template |-> workload.base_query, ticker |-> ticker]
    ELSE AgentDefaultQuery(ticker)

\* _windowed_perplexity_search: the call made to the search provider.
_windowed_perplexity_search(query, workload) ==
    [query |-> query,
     max_results |-> workload.max_results,
     max_tokens |-> workload.max_tokens,
     max_tokens_per_page |-> workload.max_tokens_per_page,
     search_after_date_filter |-> workload.research_window.start,
     search_before_date_filter |-> workload.research_window.end,
     country |-> workload.country]

(***************************************************************************)
(* Research agent: the workload.                                           *)
(***************************************************************************)
WorkloadDefaults ==
    [target_increase_pct |-> 30,
     base_query |-> None,
     max_results |-> 12,
     max_tokens |-> 12000,
     max_tokens_per_page |-> 2048,
     country |-> None]

WorkloadRequired_NoTickers == {"target_date", "research_window"}

WorkloadRequired == {"tickers", "target_date", "research_window"}

\* An inbound payload: whether it is a JSON object at all, the well-typed
\* values it gives by field name, and the fields whose value fails the type.
Payload(fields, bad_fields) ==
    [parses |-> TRUE, fields |-> fields, bad_fields |-> bad_fields]

NotJson == [parses |-> FALSE, fields |-> EmptyDict, bad_fields |-> {}]

\* AgentWorkload.model_validate_json raises a ValidationError when this is false.
WorkloadValidates(payload) ==
    /\ payload.parses
    /\ WorkloadRequired \subseteq DOMAIN payload.fields
    /\ payload.bad_fields = {}

\* The validated AgentWorkload: supplied values, defaults for the rest.
AgentWorkload(payload) ==
    [k \in WorkloadRequired \cup DOMAIN WorkloadDefaults |->
        IF k \in DOMAIN payload.fields THEN payload.fields[k] ELSE WorkloadDefaults[k]]

(***************************************************************************)
(* Research agent: inputs of the specification.                            *)
(***************************************************************************)
Tickers == {"RR", "AA"}

ResearchWindow == [start |-> "06/01/2025", end |-> "09/30/2025"]

WorkloadFields(tickers) ==
    [tickers |-> tickers, target_date |-> "12/31/2025", research_window |-> ResearchWindow]

AgentPayloads ==
    {NotJson,
     Payload([target_date |-> "12/31/2025", research_window |-> ResearchWindow], {}),
     Payload([tickers |-> <<"RR">>, research_window |-> ResearchWindow], {}),
     Payload([tickers |-> <<"RR">>, target_date |-> "12/31/2025"], {}),
     Payload(WorkloadFields(<<"RR">>), {"max_results"}),
     Payload([tickers |-> <<"RR">>, target_date |-> "12/31/2025",
              research_window |-> ResearchWindow, target_increase_pct |-> 0], {}),
     Payload([tickers |-> <<"RR">>, target_date |-> "12/31/2025",
              research_window |-> ResearchWindow, target_increase_pct |-> -10], {}),
     Payload([tickers |-> <<"AA">>, target_date |-> "12/31/2025",
              research_window |-> ResearchWindow, target_increase_pct |-> 50], {}),
     Payload([tickers |-> <<"RR", "AA">>, target_date |-> "12/31/2025",
              research_window |-> ResearchWindow,
              base_query |-> "{ticker} order intake"], {})}
    \cup {Payload(WorkloadFields(t), {}) : t \in SeqsUpTo(Tickers, MaxTickers)}

Found(title, snippet) ==
    [title |-> title, url |-> "https://news.example/item", date |-> "2025-07-01",
     last_updated |-> None, snippet |-> snippet]

Upbeat == Found(Text(<<"upbeat", "outlook">>), NoText)
RecordProfit == Found(Text(<<"Record", "profit">>), Text(<<"outlook">>))
Profitability == Found(NoText, Text(<<"profitability">>))
Loss == Found(Text(<<"loss">>), Text(<<"flat">>))
MissedDropped == Found(Text(<<"Missed">>), Text(<<"dropped">>))
Flat == Found(Text(<<"flat">>), NoText)

ResearchOutcomes ==
    {SearchOutcome(r, FALSE) :
        r \in {<<>>,
               <<Upbeat>>,
               <<RecordProfit>>,
               <<RecordProfit, Upbeat>>,
               <<Profitability, RecordProfit>>,
               <<RecordProfit, Profitability, Upbeat, Profitability>>,
               <<Flat>>,
               <<Loss, Flat, Upbeat, Flat>>,
               <<Flat, Flat, Flat, Loss>>,
               <<Loss>>,
               <<MissedDropped, Loss>>,
               <<Loss, MissedDropped, Loss, MissedDropped>>}}
    \cup {SearchOutcome(<<>>, TRUE)}

(***************************************************************************)
(* Research agent: the run.                                                *)
(***************************************************************************)
NoWorkload == None

NewAgentRun ==
    [pc |-> "received",
     payload |-> NotJson,
     workload |-> NoWorkload,
     decisions |-> <<>>,
     idx |-> 1,
     searches |-> <<>>,
     artifacts |-> <<>>,
     reject_msg |-> "none",
     error |-> "none",
     trace |-> <<>>]

AgentInit == ag = NewAgentRun

SetAgent(changes) ==
    ag' = [f \in DOMAIN ag |-> IF f \in DOMAIN changes THEN changes[f] ELSE ag[f]]

\* run(), from the top to the first thing it tells the updater: the payload
\* is validated, and the working status is reported.
AgStart ==
    /\ ag.pc = "received"
    /\ \E payload \in AgentPayloads :
         IF ~WorkloadValidates(payload)
         THEN SetAgent([pc |-> "rejected", payload |-> payload,
                        reject_msg |-> "Invalid request",
                        trace |-> Append(ag.trace, "reject")])
         ELSE SetAgent([pc |-> "working", payload |-> payload,
                        workload |-> AgentWorkload(payload),
                        trace |-> Append(ag.trace, "status:working")])
    /\ UNCHANGED <<context_ids, m_last, m_log, u_in, u_out, ev>>

\* One pass of the loop in which a failure of the provider ends the run.
AgResearch_AbortsOnError ==
    /\ ag.pc = "working"
    /\ ag.idx <= Len(ag.workload.tickers)
    /\ \E outcome \in ResearchOutcomes :
         LET ticker == ag.workload.tickers[ag.idx]
             call == _windowed_perplexity_search(ResearchQuery(ag.workload, ticker),
                                                 ag.workload)
             d == TickerDecision(ticker, outcome.results, ag.workload.target_increase_pct)
             searched == Append(ag.searches, [call |-> call, outcome |-> outcome])
         IN  IF TickerDecisionValidates(d.confidence) /\ ~outcome.error
             THEN SetAgent([idx |-> ag.idx + 1,
                            searches |-> searched,
                            decisions |-> Append(ag.decisions, d),
                            trace |-> Append(ag.trace, "search")])
             ELSE SetAgent([pc |-> "aborted",
                            searches |-> searched,
                            error |-> "ProviderError",
                            trace |-> Append(ag.trace, "search")])
    /\ UNCHANGED <<context_ids, m_last, m_log, u_in, u_out, ev>>

\* One pass of the loop over the tickers: one search over the research
\* window, the verdict, and the decision appended.
AgResearch ==
    /\ ag.pc = "working"
    /\ ag.idx <= Len(ag.workload.tickers)
    /\ \E outcome \in ResearchOutcomes :
         LET ticker == ag.workload.tickers[ag.idx]
             call == _windowed_perplexity_search(ResearchQuery(ag.workload, ticker),
                                                 ag.workload)
             d == TickerDecision(ticker, outcome.results, ag.workload.target_increase_pct)
             searched == Append(ag.searches, [call |-> call, outcome |-> outcome])
         IN  IF TickerDecisionValidates(d.confidence)
             THEN SetAgent([idx |-> ag.idx + 1,
                            searches |-> searched,
                            decisions |-> Append(ag.decisions, d),
                            trace |-> Append(ag.trace, "search")])
             ELSE SetAgent([pc |-> "aborted",
                            searches |-> searched,
                            error |-> "ValidationError",
                            trace |-> Append(ag.trace, "search")])
    /\ UNCHANGED <<context_ids, m_last, m_log, u_in, u_out, ev>>

\* The end of the loop without the artifact.
AgEmit_Skipped ==
    /\ ag.pc = "working"
    /\ ag.idx > Len(ag.workload.tickers)
    /\ SetAgent([pc |-> "emitted"])
    /\ UNCHANGED <<context_ids, m_last, m_log, u_in, u_out, ev>>

\* After the loop: the AgentResponse goes out as the "Decisions" artifact.
AgEmit ==
    /\ ag.pc = "working"
    /\ ag.idx > Len(ag.workload.tickers)
    /\ SetAgent([pc |-> "emitted",
                 artifacts |-> Append(ag.artifacts,
                                 [name |-> "Decisions",
                                  data |-> [run_id |-> "agent-run",
                                            target_date |-> ag.workload.target_date,
                                            target_increase_pct |-> ag.workload.target_increase_pct,
                                            decisions |-> ag.decisions]]),
                 trace |-> Append(ag.trace, "artifact:Decisions")])
    /\ UNCHANGED <<context_ids, m_last, m_log, u_in, u_out, ev>>

\* updater.complete()
AgComplete ==
    /\ ag.pc = "emitted"
    /\ SetAgent([pc |-> "completed", trace |-> Append(ag.trace, "complete")])
    /\ UNCHANGED <<context_ids, m_last, m_log, u_in, u_out, ev>>

SpecAgentInit == MessengerInit /\ UnwrapIdle /\ NoRuns /\ AgentInit

SpecAgentNext == AgStart \/ AgResearch \/ AgEmit \/ AgComplete

SpecAgent == SpecAgentInit /\ [][SpecAgentNext]_vars

\* run() is one coroutine with no wait on anything but its own calls, and the
\* searches are synchronous: a run that can take a step takes it.
SpecAgentLive == SpecAgent /\ WF_vars(SpecAgentNext)

(***************************************************************************)
(* Claims about the Messenger.                                             *)
(***************************************************************************)
IsTalk(e) == e.op = "talk"

\* Between log positions i and j nothing replaced the id stored for url:
\* no reset and no successful call to url.
Undisturbed(i, j, url) ==
    \A k \in (i + 1)..(j - 1) :
        /\ m_log[k].op # "reset"
        /\ ~(IsTalk(m_log[k]) /\ m_log[k].url = url /\ m_log[k].ok)

\* C1: after a successful call to an endpoint whose reply carries context id
\* c, the next call to that endpoint with new_conversation = false (no reset
\* and no other successful call to it in between) sends c as the context id
\* of its outbound message.
C1_SessionContinuity ==
    \A i, j \in 1..Len(m_log) :
        ( /\ i < j
          /\ IsTalk(m_log[i]) /\ m_log[i].ok
          /\ IsTalk(m_log[j]) /\ m_log[j].url = m_log[i].url
          /\ ~m_log[j].new_conversation
          /\ Undisturbed(i, j, m_log[i].url) )
        => m_log[j].sent = m_log[i].reply_ctx

C1_Witness ==
    \E i, j \in 1..Len(m_log) :
        /\ j = i + 1
        /\ IsTalk(m_log[i]) /\ m_log[i].ok /\ m_log[i].reply_ctx \in CtxIds
        /\ IsTalk(m_log[j]) /\ m_log[j].url = m_log[i].url
        /\ ~m_log[j].new_conversation
        /\ m_log[j].sent = m_log[i].reply_ctx

\* C2: a call with new_conversation = true sends an outbound message with no
\* context id, whatever the Messenger has stored from earlier calls.
C2_NewConversationSendsNoContext ==
    \A j \in 1..Len(m_log) :
        (IsTalk(m_log[j]) /\ m_log[j].new_conversation) => m_log[j].sent = None

C2_Witness ==
    \E i, j \in 1..Len(m_log) :
        /\ j = i + 1
        /\ IsTalk(m_log[i]) /\ m_log[i].ok /\ m_log[i].reply_ctx \in CtxIds
        /\ IsTalk(m_log[j]) /\ m_log[j].url = m_log[i].url
        /\ m_log[j].new_conversation
        /\ m_log[j].sent = None

\* C3: after reset() the session map is empty, and the next call to any
\* endpoint with new_conversation = false sends no context id, as the first
\* call on a fresh Messenger does, whatever was called before the reset.
C3_ResetClearsSessions ==
    /\ (m_last = ResetEntry => context_ids = EmptyDict)
    /\ \A j \in 1..Len(m_log) :
         ( /\ IsTalk(m_log[j]) /\ ~m_log[j].new_conversation
           /\ (j = 1 \/ m_log[j - 1].op = "reset") )
         => m_log[j].sent = None

C3_Witness ==
    /\ Len(m_log) = 3
    /\ IsTalk(m_log[1]) /\ m_log[1].ok /\ m_log[1].reply_ctx \in CtxIds
    /\ m_log[2].op = "reset"
    /\ IsTalk(m_log[3]) /\ m_log[3].url = m_log[1].url
    /\ ~m_log[3].new_conversation /\ m_log[3].sent = None

\* The final event of the last call's reply stream reports a status.
LastReplyReportsStatus ==
    /\ m_last.op = "talk"
    /\ m_last.stream # <<>>
    /\ m_last.stream[Len(m_last.stream)].kind = "task"

LastReplyStatus == m_last.stream[Len(m_last.stream)].state

\* C4: whenever the final status the remote actor reports is anything but
\* "completed", talk_to_agent raises an error carrying the raw outputs and
\* returns no result; a call that reports a status returns only when that
\* status is "completed".
C4_NonCompletedRaises ==
    LastReplyReportsStatus =>
        /\ (LastReplyStatus # "completed") =>
              /\ m_last.raised
              /\ m_last.result = NoResult
              /\ m_last.error # NoError
              /\ m_last.error.outputs.status = LastReplyStatus
        /\ (m_last.result # NoResult) => LastReplyStatus = "completed"

C4_Witness ==
    /\ LastReplyReportsStatus
    /\ LastReplyStatus = "working"
    /\ m_last.raised
    /\ m_last.result = NoResult

(***************************************************************************)
(* Claims about send_message.                                              *)
(***************************************************************************)
RECURSIVE DataOf(_)
DataOf(parts) ==
    IF parts = <<>> THEN <<>>
    ELSE (IF Head(parts).kind = "data" THEN <<Head(parts).data>> ELSE <<>>)
         \o DataOf(Tail(parts))

RECURSIVE DataOfAll(_)
DataOfAll(artifacts) ==
    IF artifacts = <<>> THEN <<>>
    ELSE DataOf(Head(artifacts)) \o DataOfAll(Tail(artifacts))

UnwrappedTask == u_out # NoCall /\ u_in[Len(u_in)].kind = "task"

FinalTask == u_in[Len(u_in)]

StatusDataOf(task) ==
    IF task.status_message.present THEN DataOf(task.status_message.parts) ELSE <<>>

\* C5 as stated: for a task reply, data_parts is the status message's data
\* followed by the artifacts' data.
C5_StatusDataThenArtifactData ==
    UnwrappedTask =>
        u_out.data_parts = StatusDataOf(FinalTask) \o DataOfAll(FinalTask.artifacts)

\* C5 (amended): for a task reply, data_parts is the artifacts' data, in
\* artifact and part order, followed by the status message's data in part
\* order: the status-message data comes after the artifact data.
C5_ArtifactDataThenStatusData ==
    UnwrappedTask =>
        u_out.data_parts = DataOfAll(FinalTask.artifacts) \o StatusDataOf(FinalTask)

C5_Witness ==
    /\ UnwrappedTask
    /\ Len(StatusDataOf(FinalTask)) = 2
    /\ Len(DataOfAll(FinalTask.artifacts)) >= 3
    /\ u_out.data_parts = DataOfAll(FinalTask.artifacts) \o StatusDataOf(FinalTask)
    /\ u_out.data_parts # StatusDataOf(FinalTask) \o DataOfAll(FinalTask.artifacts)

(***************************************************************************)
(* Claims about the Evaluator.                                             *)
(***************************************************************************)
Verdicts == {"increase", "no_increase", "unknown"}

\* The pass table of the six cases.
PassTable(verdict, truth) ==
    CASE verdict = "increase" /\ truth -> TRUE
      [] verdict = "increase" /\ ~truth -> FALSE
      [] verdict = "no_increase" /\ truth -> FALSE
      [] verdict = "no_increase" /\ ~truth -> TRUE
      [] verdict = "unknown" /\ truth -> FALSE
      [] verdict = "unknown" /\ ~truth -> TRUE

FollowsPassTable(ticker_results) ==
    \A t \in DOMAIN ticker_results :
        ticker_results[t].agent_verdict \in Verdicts =>
            ticker_results[t].pass =
                PassTable(ticker_results[t].agent_verdict, ticker_results[t].truth_increase)

\* C6: every ticker result's pass flag is the six-case function of its
\* agent_verdict and truth_increase: (increase, true) and (no_increase,
\* false) and (unknown, false) pass, the other three fail; in the run's
\* working results and in the scorecard it emits.
C6_PassIsFunctionOfVerdictAndTruth ==
    \A r \in DOMAIN ev :
        /\ FollowsPassTable(ev[r].ticker_results)
        /\ \A i \in 1..Len(ev[r].artifacts) :
             FollowsPassTable(ev[r].artifacts[i].data.ticker_results)

C6_Witness ==
    \E r \in DOMAIN ev :
        /\ ev[r].pc = "completed"
        /\ Len(ev[r].artifacts) = 1
        /\ LET tr == ev[r].artifacts[1].data.ticker_results
           IN  /\ DOMAIN tr = {"RR", "AA"}
               /\ tr["RR"].agent_verdict = "increase"
               /\ tr["RR"].truth_increase /\ tr["RR"].pass
               /\ tr["AA"].agent_verdict = "unknown"
               /\ tr["AA"].truth_increase /\ ~tr["AA"].pass

Scored(r) == ev[r].pc \in {"emitted", "completed"}

\* C7: the pass rate is passed / total * 100, total being the number of
\* ticker results and passed the number of them that pass, so that
\* 0 <= passed <= total; with no ticker result the rate is exactly 0, no
\* division by zero is made, and the scorecard is still emitted.
C7_PassRate ==
    \A r \in DOMAIN ev :
        Scored(r) =>
            /\ ev[r].total = Cardinality(DOMAIN ev[r].ticker_results)
            /\ ev[r].passed =
                 Cardinality({t \in DOMAIN ev[r].ticker_results : ev[r].ticker_results[t].pass})
            /\ 0 <= ev[r].passed /\ ev[r].passed <= ev[r].total
            /\ ev[r].pass_rate.den > 0
            /\ ev[r].pass_rate.num * ev[r].total
                 = ev[r].passed * 100 * ev[r].pass_rate.den
            /\ (ev[r].total = 0 => ev[r].pass_rate.num = 0)
            /\ Len(ev[r].artifacts) = 1
            /\ ev[r].artifacts[1].text.passed = ev[r].passed
            /\ ev[r].artifacts[1].text.total = ev[r].total

C7_Witness ==
    \E r \in DOMAIN ev :
        /\ ev[r].pc = "completed"
        /\ ev[r].total = 2 /\ ev[r].passed = 1
        /\ ev[r].pass_rate.num = 50 * ev[r].pass_rate.den
        /\ ev[r].artifacts[1].text.pass_rate = 500

\* A run that was given decisions and ends with no ticker result: the rate
\* is 0 and the run completes.
C7_ZeroTickersReached ==
    \E r \in DOMAIN ev :
        /\ ev[r].pc = "completed"
        /\ ev[r].decisions # <<>>
        /\ ev[r].total = 0 /\ ev[r].pass_rate.num = 0
        /\ ev[r].artifacts[1].text.pass_rate = 0

\* The request of run r parsed and names no "agent" participant.
LacksAgentRole(r) ==
    /\ ev[r].pc # "received"
    /\ ev[r].request.parses
    /\ "agent" \notin DOMAIN ev[r].request.participants

\* C8: a request whose participants lack the role "agent" ends rejected with
\* a message naming the missing role, and in that run no Messenger call, no
\* search and no artifact emission happens.
C8_MissingAgentRoleRejected ==
    \A r \in DOMAIN ev :
        LacksAgentRole(r) =>
            /\ ev[r].pc = "rejected"
            /\ ev[r].reject_msg.kind = "Missing roles"
            /\ "agent" \in ev[r].reject_msg.roles
            /\ ev[r].trace = <<"reject">>
            /\ ev[r].outbound = NoMessage
            /\ m_log = <<>>
            /\ ev[r].searches = <<>>
            /\ ev[r].artifacts = <<>>

C8_Witness ==
    \E r \in DOMAIN ev :
        /\ LacksAgentRole(r)
        /\ DOMAIN ev[r].request.participants = {"judge"}
        /\ ev[r].pc = "rejected"
        /\ ev[r].reject_msg.roles = {"agent"}

\* The decisions C9 describes: those of the first fragment with a non-empty
\* decisions field; with no such fragment those of the reply text parsed as
\* JSON; the empty list when that yields nothing.
RECURSIVE FirstDecisions(_)
FirstDecisions(fragments) ==
    IF fragments = <<>> THEN <<>>
    ELSE IF "decisions" \in DOMAIN Head(fragments) /\ Head(fragments).decisions # <<>>
    THEN Head(fragments).decisions
    ELSE FirstDecisions(Tail(fragments))

TextDecisions(text) ==
    LET body == SelectSeq(text, LAMBDA l : l.kind # "blank")
    IN  IF /\ Len(body) = 1
           /\ body[1].kind = "json"
           /\ body[1].value.jtype = "object"
           /\ "decisions" \in DOMAIN body[1].value.obj
        THEN body[1].value.obj.decisions
        ELSE <<>>

ClaimedDecisions(agent_outputs) ==
    IF FirstDecisions(agent_outputs.data_parts) # <<>>
    THEN FirstDecisions(agent_outputs.data_parts)
    ELSE TextDecisions(agent_outputs.response_text)

\* C9: the decisions are those of the first structured-data fragment with a
\* non-empty decisions field; if no fragment has one (also when fragments
\* exist but none carries decisions) the reply text is parsed as JSON and its
\* decisions are used; if that yields nothing the list is empty and the run
\* goes on to a zero-ticker scorecard.
C9_DecisionExtraction ==
    \A r \in DOMAIN ev :
        ev[r].agent_outputs # NoResult =>
            /\ ev[r].pc # "aborted"
            /\ ev[r].decisions = ClaimedDecisions(ev[r].agent_outputs)

(***************************************************************************)
(* Claims about the research agent.                                        *)
(***************************************************************************)
\* The polarity score of the evidence the i-th search returned.
PolarityOf(i) == _score_sentiment(TextBlob(ag.searches[i].outcome.results))

HasEvidence(i) == ag.searches[i].outcome.results # <<>>

\* The verdict and the confidence (in thousandths) the score s calls for.
FollowsPolarity(d, s) ==
    /\ s > 0 => d.verdict = "increase" /\ d.confidence = Min(900, 550 + 100 * s)
    /\ s < 0 => d.verdict = "no_increase" /\ d.confidence = Min(900, 550 + 100 * (-s))
    /\ s = 0 => d.verdict = "unknown" /\ d.confidence = 350

EmittedDecisions ==
    {ag.decisions[i] : i \in 1..Len(ag.decisions)}
    \cup UNION {{ag.artifacts[a].data.decisions[i] :
                    i \in 1..Len(ag.artifacts[a].data.decisions)} :
                 a \in 1..Len(ag.artifacts)}

\* C10: for non-empty evidence with polarity score s = positive count minus
\* negative count, the decision is increase with confidence min(0.9, 0.55+0.1s)
\* when s > 0, no_increase with confidence min(0.9, 0.55+0.1|s|) when s < 0,
\* and unknown with confidence 0.35 when s = 0; every emitted confidence lies
\* in [0.2, 0.9], so no decision is ever refused by the Decision's [0, 1] bound.
C10_VerdictFollowsPolarity ==
    /\ \A i \in 1..Len(ag.decisions) :
         HasEvidence(i) => FollowsPolarity(ag.decisions[i], PolarityOf(i))
    /\ \A d \in EmittedDecisions : 200 <= d.confidence /\ d.confidence <= 900
    /\ ag.error # "ValidationError"

\* A completed run whose artifact carries a decision at the cap for a score
\* above 4 and a decision below the cap for a negative score.
C10_Witness ==
    /\ ag.pc = "completed"
    /\ Len(ag.decisions) = 2
    /\ HasEvidence(1) /\ PolarityOf(1) > 4 /\ ag.decisions[1].confidence = 900
    /\ HasEvidence(2) /\ PolarityOf(2) = -1 /\ ag.decisions[2].confidence = 650
    /\ ag.artifacts[1].data.decisions = ag.decisions

\* C11: an empty evidence list always yields verdict unknown with confidence
\* 0.20, whatever the target-increase threshold of the workload is.
C11_NoEvidenceIsUnknown ==
    \A i \in 1..Len(ag.decisions) :
        ~HasEvidence(i) =>
            /\ ag.decisions[i].verdict = "unknown"
            /\ ag.decisions[i].confidence = 200
            /\ ag.decisions[i].evidence = <<>>

\* A decision made on no evidence under a threshold other than the default.
C11_Witness ==
    /\ ag.pc = "completed"
    /\ ag.workload.target_increase_pct = 50
    /\ ~HasEvidence(1)
    /\ ~ag.searches[1].outcome.error
    /\ ag.decisions[1].confidence = 200

(***************************************************************************)
(* Claims about the Evaluator's ground truth and the research agent's run. *)
(***************************************************************************)
\* The percentages a text mentions, in tenths of a percent.
MentionedIn(text) ==
    IF text = NoText THEN {}
    ELSE {text.toks[i].tenths : i \in {i \in 1..Len(text.toks) : text.toks[i].kind = "pct"}}
         \cup {300 : i \in {i \in 1..Len(text.toks) : text.toks[i].kind = "thirty percent"}}

\* The maximum percentage mentioned in the evidence, 0 when none is.
MaxMentioned(results) ==
    LET all == {0} \cup UNION {MentionedIn(results[i].title) \cup MentionedIn(results[i].snippet) :
                                 i \in 1..Len(results)}
    IN  CHOOSE m \in all : \A x \in all : x <= m

\* The truth the evidence calls for under a threshold given in hundredths.
ClaimedTruth(results, hundredths) ==
    results # <<>> /\ MaxMentioned(results) >= hundredths * 10

\* The ticker the k-th verification search of run r was made for.
SearchedTicker(r, k) == ev[r].decisions[ev[r].searches[k].idx].ticker

\* The k-th search of run r is the one its ticker's result was made from.
DecidesTicker(r, k) ==
    \A j \in (k + 1)..Len(ev[r].searches) : SearchedTicker(r, j) # SearchedTicker(r, k)

\* C12: with no verification evidence the truth is false for every
\* threshold; with evidence the truth is true exactly when the maximum
\* percentage mentioned (thirty percent counting as 30, nothing as 0) is at
\* least the threshold fraction times 100.
C12_TruthIffMaxReachesThreshold ==
    \A r \in DOMAIN ev :
        \A k \in 1..Len(ev[r].searches) :
            DecidesTicker(r, k) =>
                ev[r].ticker_results[SearchedTicker(r, k)].truth_increase
                    = ClaimedTruth(ev[r].searches[k].outcome.results,
                                   ev[r].cfg.target_increase_pct)

\* How many times an entry stands in a trace.
Occurrences(trace, entry) == Cardinality({i \in 1..Len(trace) : trace[i] = entry})

\* C13: every completed run of the research agent has emitted exactly one
\* "Decisions" artifact, before it signalled completion, and the artifact's
\* decisions list has one decision per entry of the workload's ticker list,
\* in the same order: the i-th decision is for the i-th input ticker.
C13_OneDecisionsArtifactInTickerOrder ==
    ag.pc = "completed" =>
        /\ Len(ag.artifacts) = 1
        /\ ag.artifacts[1].name = "Decisions"
        /\ Occurrences(ag.trace, "artifact:Decisions") = 1
        /\ Occurrences(ag.trace, "complete") = 1
        /\ ag.trace[Len(ag.trace)] = "complete"
        /\ LET decisions == ag.artifacts[1].data.decisions
               tickers == ag.workload.tickers
           IN  /\ Len(decisions) = Len(tickers)
               /\ \A i \in 1..Len(tickers) : decisions[i].ticker = tickers[i]

\* A completed run over two tickers given in an order that is not the
\* alphabetical one.
C13_Witness ==
    /\ ag.pc = "completed"
    /\ ag.workload.tickers = <<"RR", "AA">>
    /\ Len(ag.artifacts) = 1
    /\ ag.artifacts[1].data.decisions[1].ticker = "RR"
    /\ ag.artifacts[1].data.decisions[2].ticker = "AA"
    /\ ag.artifacts[1].data.decisions[1].verdict # ag.artifacts[1].data.decisions[2].verdict

\* The payload is not JSON of the Workload shape, or lacks one of tickers,
\* target_date and research_window.
FailsWorkloadShape(payload) ==
    \/ ~payload.parses
    \/ payload.bad_fields # {}
    \/ "tickers" \notin DOMAIN payload.fields
    \/ "target_date" \notin DOMAIN payload.fields
    \/ "research_window" \notin DOMAIN payload.fields

C15_WorkloadConstraints ==
    /\ ag.pc \notin {"received", "rejected"} =>
         /\ ag.workload.tickers # <<>>
         /\ ag.workload.target_increase_pct > 0
    /\ (/\ ag.pc # "received"
        /\ ag.payload.parses
        /\ \/ /\ "tickers" \in DOMAIN ag.payload.fields
              /\ ag.payload.fields.tickers = <<>>
           \/ /\ "target_increase_pct" \in DOMAIN ag.payload.fields
              /\ ag.payload.fields.target_increase_pct <= 0)
       => ag.pc = "rejected"

\* The i-th search of the run failed at the provider.
ProviderFailed(i) ==
    ag.searches[i].outcome.error /\ ag.searches[i].outcome.results = <<>>

\* One search per ticker taken so far, each for its ticker, and none repeated.
OneSearchPerTicker ==
    /\ Len(ag.searches) = Len(ag.decisions)
    /\ Len(ag.searches) <= Len(ag.workload.tickers)
    /\ Occurrences(ag.trace, "search") = Len(ag.searches)
    /\ \A i \in 1..Len(ag.searches) :
         ag.searches[i].call.query.ticker = ag.workload.tickers[i]

CompletedWithOneDecisionPerTicker ==
    /\ ag.pc = "completed"
    /\ Len(ag.searches) = Len(ag.workload.tickers)
    /\ Len(ag.artifacts) = 1
    /\ Len(ag.artifacts[1].data.decisions) = Len(ag.workload.tickers)

\* C16: a search that fails at the provider (no result and an error string)
\* never aborts the batch: that ticker's decision is unknown, exactly one
\* search is made per ticker with no retry, every other ticker is still
\* processed, and the run ends completed with one decision per ticker.
C16_ProviderFailureDegradesToUnknown ==
    /\ [](ag.pc \in {"working", "emitted", "completed"} =>
            /\ OneSearchPerTicker
            /\ \A i \in 1..Len(ag.decisions) :
                 ProviderFailed(i) => ag.decisions[i].verdict = "unknown")
    /\ [](ag.pc # "aborted")
    /\ (ag.pc = "working" ~> CompletedWithOneDecisionPerTicker)

\* A completed run whose first search failed at the provider and whose
\* second ticker was still researched and decided on its evidence.
C16_Witness ==
    /\ ag.pc = "completed"
    /\ Len(ag.workload.tickers) = 2
    /\ ProviderFailed(1)
    /\ ag.decisions[1].verdict = "unknown"
    /\ HasEvidence(2)
    /\ ag.decisions[2].verdict = "increase"
    /\ Len(ag.searches) = 2

(***************************************************************************)
(* Claims about the Evaluator's failures and its scorecard.                *)
(***************************************************************************)
\* The inbound payload of run r is malformed or incomplete: not a request
\* at all, without the agent role, or with config values that fail the
\* EvalConfig field constraints.
MalformedOrIncomplete(r) ==
    /\ ev[r].pc # "received"
    /\ \/ ~ev[r].request.parses
       \/ "agent" \notin DOMAIN ev[r].request.participants
       \/ ev[r].request.config.bad_fields # {}

\* C17: every malformed or incomplete inbound Evaluator payload, also one
\* with valid participants and config values that fail the EvalConfig field
\* constraints, ends the run rejected with the validation detail, with no
\* remote call made and no unhandled error.
C17_BadPayloadRejected ==
    \A r \in DOMAIN ev :
        MalformedOrIncomplete(r) =>
            /\ ev[r].pc = "rejected"
            /\ ev[r].reject_msg.kind # "none"
            /\ ev[r].error = "none"
            /\ ev[r].outbound = NoMessage
            /\ ev[r].searches = <<>>

\* The Messenger call of run r ended with a final status other than completed.
AgentCallNotCompleted(r) ==
    /\ ev[r].outbound # NoMessage
    /\ ev[r].pc # "awaiting_agent"
    /\ LastReplyReportsStatus
    /\ m_last.url = ev[r].agent_url
    /\ LastReplyStatus # "completed"

\* C18: when the Evaluator's Messenger call to the agent ends with a status
\* other than completed, the run aborts in its working phase with an
\* unhandled error: no verification search is made, no "Result" artifact is
\* emitted, and the run signals neither completed nor rejected.
C18_FailedAgentCallAbortsRun ==
    \A r \in DOMAIN ev :
        AgentCallNotCompleted(r) =>
            /\ ev[r].pc = "aborted"
            /\ ev[r].error = "RuntimeError"
            /\ ev[r].searches = <<>>
            /\ ev[r].ticker_results = EmptyDict
            /\ ev[r].artifacts = <<>>
            /\ ev[r].trace = <<"status:working", "send">>

\* A run aborted by a canceled task whose artifact carried decisions.
C18_Witness ==
    \E r \in DOMAIN ev :
        /\ AgentCallNotCompleted(r)
        /\ LastReplyStatus = "canceled"
        /\ m_last.stream[Len(m_last.stream)].artifacts # <<>>
        /\ Len(m_last.stream) > 1
        /\ ev[r].pc = "aborted"
        /\ ev[r].decisions = <<>>

\* Run r was given a request with the agent role and an empty config.
EmptyConfigRequest(r) ==
    /\ ev[r].pc # "received"
    /\ ev[r].request.parses
    /\ "agent" \in DOMAIN ev[r].request.participants
    /\ ev[r].request.config = EmptyConfig

NamesTicker(d) == "ticker" \in DOMAIN d /\ d.ticker # ""

\* The scorecard entry made from decision d and the verification results.
EntryFollows(entry, d, results) ==
    /\ entry.agent_verdict = d.verdict
    /\ entry.agent_confidence = d.confidence
    /\ entry.evidence_checked = Len(results)
    /\ entry.truth_increase = ClaimedTruth(results, 30)
    /\ entry.pass = (\/ d.verdict = "increase" /\ ClaimedTruth(results, 30)
                     \/ d.verdict \in {"no_increase", "unknown"} /\ ~ClaimedTruth(results, 30))

SameFinalEvent(s) ==
    {s2 \in SessionStreams : s2 # <<>> /\ s2[Len(s2)] = s[Len(s)]}

\* C20: the result of a Messenger call depends only on the last event of the
\* remote actor's stream: for any two streams with the same final event,
\* whatever partial updates precede it, the response_text, data_parts and
\* status returned (or carried by the error) and the session id stored for
\* the endpoint are the same, and one outbound message is sent per call.
C20_OnlyFinalEventCounts ==
    (m_last.op = "talk" /\ m_last.stream # <<>>) =>
        \A s2 \in SameFinalEvent(m_last.stream) :
            LET other == send_message(s2, m_last.outbound.context_id)
            IN  /\ m_last.outbound = other.outbound
                /\ m_last.raised => m_last.error.outputs = other.outputs
                /\ ~m_last.raised =>
                     /\ m_last.result.response_text = other.outputs.response_text
                     /\ m_last.result.data_parts = other.outputs.data_parts
                     /\ DOMAIN m_last.result = DOMAIN other.outputs
                     /\ "status" \in DOMAIN m_last.result =>
                          m_last.result.status = other.outputs.status
                     /\ DictGet(context_ids, m_last.url) = other.outputs.context_id
                /\ m_log[Len(m_log)].op = "talk"
                /\ m_log[Len(m_log)].sent = m_last.outbound.context_id

\* A call whose stream had partial updates (with a session id, text and data
\* of their own) before a completed task with another session id.
C20_Witness ==
    /\ m_last.op = "talk"
    /\ Len(m_last.stream) = MaxStream
    /\ ~m_last.raised
    /\ m_last.stream[1] = PartialUpdate
    /\ m_last.result.data_parts = <<DataA>>
    /\ context_ids[m_last.url] = "ctx-1"
    /\ Cardinality(SameFinalEvent(m_last.stream)) >= 2

(***************************************************************************)
(* Claims about the order of the Evaluator's steps.                        *)
(***************************************************************************)
\* The last n entries of a trace.
LastOf(trace, n) == SubSeq(trace, Len(trace) - n + 1, Len(trace))

\* C21: in every Evaluator run that reaches completed the "Result" artifact
\* (text summary and scorecard) was emitted exactly once, then the
\* Messenger's session state was reset, then terminal success was signalled;
\* so whenever a run is completed its Messenger's session map is empty.
C21_ResultThenResetThenComplete ==
    \A r \in DOMAIN ev :
        ev[r].pc = "completed" =>
            /\ Len(ev[r].trace) >= 3
            /\ LastOf(ev[r].trace, 3) = <<"artifact:Result", "reset", "complete">>
            /\ Occurrences(ev[r].trace, "artifact:Result") = 1
            /\ Occurrences(ev[r].trace, "reset") = 1
            /\ Occurrences(ev[r].trace, "complete") = 1
            /\ Len(ev[r].artifacts) = 1
            /\ ev[r].artifacts[1].name = "Result"
            /\ DOMAIN ev[r].artifacts[1] = {"name", "text", "data"}
            /\ context_ids = EmptyDict

\* A completed run whose call to the agent had stored a session id.
C21_Witness ==
    \E r \in DOMAIN ev :
        /\ ev[r].pc = "completed"
        /\ ev[r].agent_outputs.context_id = "ctx-1"
        /\ \E i \in 1..Len(m_log) : m_log[i].op = "talk" /\ m_log[i].reply_ctx = "ctx-1"
        /\ m_log[Len(m_log)].op = "reset"
        /\ context_ids = EmptyDict

\* Run r passed validation: its request parsed, names the agent role and
\* carries a config that EvalConfig accepts.
PassedValidation(r) ==
    /\ ev[r].pc # "received"
    /\ ev[r].request.parses
    /\ "agent" \in DOMAIN ev[r].request.participants
    /\ ev[r].request.config.bad_fields = {}

\* The positions of an entry in a trace.
PositionsOf(trace, entry) == {i \in 1..Len(trace) : trace[i] = entry}

\* C22: in every Evaluator run that passes validation exactly one Messenger
\* call is made, addressed to the agent participant's endpoint with
\* new_conversation = true, after the working status is reported and before
\* any verification search; the Evaluator never sends a stored session id.
C22_OneFreshCallToAgent ==
    \A r \in DOMAIN ev :
        PassedValidation(r) =>
            /\ ev[r].trace[1] = "status:working"
            /\ Occurrences(ev[r].trace, "send") <= 1
            /\ ev[r].pc # "working" =>
                 /\ ev[r].trace[2] = "send"
                 /\ Occurrences(ev[r].trace, "send") = 1
                 /\ ev[r].outbound.to
                      = HttpUrlStr(ev[r].request.participants["agent"])
                 /\ ev[r].outbound.context_id = None
            /\ \A i \in PositionsOf(ev[r].trace, "search") :
                 \A j \in PositionsOf(ev[r].trace, "send") : j < i
            /\ ev[r].searches # <<>> => Occurrences(ev[r].trace, "send") = 1
            /\ Cardinality({i \in 1..Len(m_log) : m_log[i].op = "talk"}) <= 1
            /\ \A i \in 1..Len(m_log) :
                 m_log[i].op = "talk" =>
                     /\ m_log[i].new_conversation
                     /\ m_log[i].sent = None
                     /\ m_log[i].url = HttpUrlStr(ev[r].request.participants["agent"])

\* A completed run of a request that names a judge besides the agent: one
\* call, to the agent, before two searches.
C22_Witness ==
    \E r \in DOMAIN ev :
        /\ PassedValidation(r)
        /\ ev[r].pc = "completed"
        /\ DOMAIN ev[r].request.participants = {"agent", "judge"}
        /\ Len(ev[r].searches) = 2
        /\ ev[r].outbound.to = HttpUrlStr(AgentRaw)
        /\ Occurrences(ev[r].trace, "send") = 1

\* The decisions of run r that the loop has gone past.
Visited(r) ==
    IF ev[r].pc = "verifying" THEN 1..(ev[r].idx - 1)
    ELSE IF Scored(r) THEN 1..Len(ev[r].decisions)
    ELSE {}

\* C23: verification goes through the decisions strictly in list order:
\* each decision with a non-empty ticker triggers exactly one search, over
\* the verify window and never the research window, issued after the search
\* of the decision before it has returned; a decision with a missing or an
\* empty ticker triggers no search and contributes no ticker result.
C23_SequentialVerification ==
    \A r \in DOMAIN ev :
        /\ \A k \in 1..Len(ev[r].searches) :
             LET s == ev[r].searches[k]
             IN  /\ s.idx \in Visited(r)
                 /\ NamesTicker(ev[r].decisions[s.idx])
                 /\ s.call.query.ticker = ev[r].decisions[s.idx].ticker
                 /\ s.call.search_after_date_filter = ev[r].cfg.verify_window.start
                 /\ s.call.search_before_date_filter = ev[r].cfg.verify_window.end
                 /\ s.call.search_after_date_filter # ev[r].cfg.research_window.start
                 /\ s.call.search_before_date_filter # ev[r].cfg.research_window.end
                 /\ \A j \in 1..(k - 1) : ev[r].searches[j].idx < s.idx
        /\ \A i \in Visited(r) :
             Cardinality({k \in 1..Len(ev[r].searches) : ev[r].searches[k].idx = i})
                 = IF NamesTicker(ev[r].decisions[i]) THEN 1 ELSE 0
        /\ Occurrences(ev[r].trace, "search") = Len(ev[r].searches)
        /\ DOMAIN ev[r].ticker_results
             = {ev[r].decisions[i].ticker :
                  i \in {i \in Visited(r) : NamesTicker(ev[r].decisions[i])}}

\* A completed run whose reply held a decision with an empty ticker before
\* a decision for RR: one search, for the second decision.
C23_Witness ==
    \E r \in DOMAIN ev :
        /\ ev[r].pc = "completed"
        /\ Len(ev[r].decisions) = 2
        /\ "ticker" \in DOMAIN ev[r].decisions[1]
        /\ ev[r].decisions[1].ticker = ""
        /\ Len(ev[r].searches) = 1
        /\ ev[r].searches[1].idx = 2
        /\ DOMAIN ev[r].ticker_results = {"RR"}

\* A completed run with a decision that has no ticker at all after one for AA.
C23_MissingTickerReached ==
    \E r \in DOMAIN ev :
        /\ ev[r].pc = "completed"
        /\ Len(ev[r].decisions) = 2
        /\ "ticker" \notin DOMAIN ev[r].decisions[2]
        /\ DOMAIN ev[r].ticker_results = {"AA"}

(***************************************************************************)
(* Claims about the evidence embedded in a Decision.                       *)
(***************************************************************************)
\* Evidence item e is search result r, as title, url, date and snippet.
IsResult(e, r) ==
    /\ e.title = r.title
    /\ e.url = r.url
    /\ e.date = r.date
    /\ e.snippet = r.snippet

\* C24: each Decision's embedded evidence list is exactly the first
\* min(3, n) of the n search results for its ticker, in the provider's
\* order, while the verdict is computed from all n results.
C24_EvidenceIsFirstThree ==
    \A i \in 1..Len(ag.decisions) :
        LET results == ag.searches[i].outcome.results
            n == Len(results)
            d == ag.decisions[i]
        IN  /\ Len(d.evidence) = IF n < 3 THEN n ELSE 3
            /\ \A j \in 1..Len(d.evidence) : IsResult(d.evidence[j], results[j])
            /\ n > 0 => FollowsPolarity(d, PolarityOf(i))

\* A decision made on four results of which the first three are neutral and
\* the fourth is negative: three evidence items, verdict no_increase.
C24_Witness ==
    /\ ag.pc = "completed"
    /\ Len(ag.searches) >= 1
    /\ ag.searches[1].outcome.results = <<Flat, Flat, Flat, Loss>>
    /\ Len(ag.decisions[1].evidence) = 3
    /\ _score_sentiment(TextBlob(SubSeq(ag.searches[1].outcome.results, 1, 3))) = 0
    /\ ag.decisions[1].verdict = "no_increase"
    /\ ag.artifacts[1].data.decisions[1].evidence = ag.decisions[1].evidence

(***************************************************************************)
(* Claims about the session map after a failed or a status-less reply.     *)
(***************************************************************************)
\* This step is a talk_to_agent call that raises.
FailedCallStep ==
    /\ Len(m_log') = Len(m_log) + 1
    /\ IsTalk(m_log'[Len(m_log')])
    /\ ~m_log'[Len(m_log')].ok

\* C25: a talk_to_agent call that raises because the final status is not
\* completed leaves the session map unchanged for every endpoint; the id
\* stored for the called endpoint before the failed call is still the one
\* the next call with new_conversation = false sends.
C25_FailedCallKeepsSessions ==
    /\ [][FailedCallStep => context_ids' = context_ids]_vars
    /\ [](\A i, k, j \in 1..Len(m_log) :
            ( /\ i < k /\ k < j
              /\ IsTalk(m_log[i]) /\ m_log[i].ok
              /\ IsTalk(m_log[k]) /\ ~m_log[k].ok /\ m_log[k].url = m_log[i].url
              /\ IsTalk(m_log[j]) /\ m_log[j].url = m_log[i].url
              /\ ~m_log[j].new_conversation
              /\ Undisturbed(i, j, m_log[i].url) )
            => m_log[j].sent = m_log[i].reply_ctx)

\* A call stored ctx-2 for an endpoint, the next call to it failed with a
\* reply of session ctx-1, and the call after that still sent ctx-2.
C25_Witness ==
    /\ Len(m_log) = 3
    /\ IsTalk(m_log[1]) /\ m_log[1].ok /\ m_log[1].reply_ctx = "ctx-2"
    /\ IsTalk(m_log[2]) /\ ~m_log[2].ok /\ m_log[2].url = m_log[1].url
    /\ IsTalk(m_log[3]) /\ m_log[3].url = m_log[1].url
    /\ ~m_log[3].new_conversation
    /\ m_log[3].sent = "ctx-2"
    /\ context_ids[m_log[1].url] # "ctx-1"

\* The last call got a reply that reports no status: a plain message, or a
\* stream without any event.
LastReplyWithoutStatus ==
    /\ m_last.op = "talk"
    /\ \/ m_last.stream = <<>>
       \/ m_last.stream[Len(m_last.stream)].kind = "message"

\* The context id of the last call's reply, none for a stream without event.
LastReplyContext ==
    IF m_last.stream = <<>> THEN None
    ELSE m_last.stream[Len(m_last.stream)].context_id

\* C26: a reply that reports no status at all (a plain-message reply, or an
\* event stream that yields no event) is treated by talk_to_agent as a
\* success: the call does not raise, and the endpoint's stored session id is
\* overwritten with the reply's context id, none for an empty stream, so
\* that an id stored for the endpoint before is lost.
C26_StatuslessReplyIsSuccess ==
    LastReplyWithoutStatus =>
        /\ ~m_last.raised
        /\ m_last.error = NoError
        /\ m_last.result # NoResult
        /\ "status" \notin DOMAIN m_last.result
        /\ m_last.result.context_id = LastReplyContext
        /\ m_last.url \in DOMAIN context_ids
        /\ context_ids[m_last.url] = LastReplyContext
        /\ m_log[Len(m_log)].ok

\* An endpoint had the session ctx-1 stored, the next call to it sent ctx-1
\* and got a stream without event: the endpoint's stored id is none.
C26_Witness ==
    /\ Len(m_log) = 2
    /\ IsTalk(m_log[1]) /\ m_log[1].ok /\ m_log[1].reply_ctx = "ctx-1"
    /\ IsTalk(m_log[2]) /\ m_log[2].url = m_log[1].url
    /\ m_log[2].sent = "ctx-1"
    /\ m_last.op = "talk" /\ m_last.stream = <<>>
    /\ context_ids[m_last.url] = None

(***************************************************************************)
(* Claims about tickers that several decisions name.                       *)
(***************************************************************************)
\* The decisions of run r that name ticker t.
DecisionsFor(r, t) ==
    {i \in 1..Len(ev[r].decisions) :
        NamesTicker(ev[r].decisions[i]) /\ ev[r].decisions[i].ticker = t}

DistinctTickers(r) ==
    {ev[r].decisions[i].ticker :
        i \in {i \in 1..Len(ev[r].decisions) : NamesTicker(ev[r].decisions[i])}}

\* The search made for the i-th decision of run r.
SearchFor(r, i) ==
    ev[r].searches[CHOOSE k \in 1..Len(ev[r].searches) : ev[r].searches[k].idx = i]

\* C27: the scorecard's ticker_results holds exactly one entry per distinct
\* non-empty ticker among the agent's decisions; when several decisions name
\* a ticker a search is still run for each of them, the entry reflects the
\* last such decision, and the denominator of the pass rate counts the
\* distinct tickers, not the decisions.
C27_OneEntryPerDistinctTicker ==
    \A r \in DOMAIN ev :
        Scored(r) =>
            LET card == ev[r].artifacts[1].data.ticker_results
            IN  /\ DOMAIN card = DistinctTickers(r)
                /\ \A t \in DistinctTickers(r) :
                     LET last == CHOOSE i \in DecisionsFor(r, t) :
                                    \A j \in DecisionsFor(r, t) : j <= i
                         results == SearchFor(r, last).outcome.results
                     IN  /\ \A i \in DecisionsFor(r, t) :
                              \E k \in 1..Len(ev[r].searches) : ev[r].searches[k].idx = i
                         /\ card[t].agent_verdict = ev[r].decisions[last].verdict
                         /\ card[t].agent_confidence = ev[r].decisions[last].confidence
                         /\ card[t].evidence_checked = Len(results)
                         /\ card[t].rationale
                              = _infer_truth(results, ev[r].cfg.target_increase_pct).rationale
                /\ Len(ev[r].searches)
                     = Cardinality({i \in 1..Len(ev[r].decisions) :
                                       NamesTicker(ev[r].decisions[i])})
                /\ ev[r].total = Cardinality(DistinctTickers(r))
                /\ ev[r].artifacts[1].data.summary.total = Cardinality(DistinctTickers(r))
                /\ ev[r].pass_rate.num * ev[r].total
                     = ev[r].passed * 100 * ev[r].pass_rate.den

\* Two decisions for RR, increase then no_increase, each with its search
\* (the first found one result, the second none): one entry, of the second
\* decision, and a pass rate of 100.0 over one ticker.
C27_Witness ==
    \E r \in DOMAIN ev :
        /\ ev[r].pc = "completed"
        /\ ev[r].decisions = <<Decision("RR", "increase", 800),
                               Decision("RR", "no_increase", 650)>>
        /\ Len(ev[r].searches) = 2
        /\ ev[r].searches[1].outcome.results = <<Result33>>
        /\ ev[r].searches[2].outcome.results = <<>>
        /\ LET card == ev[r].artifacts[1].data
           IN  /\ DOMAIN card.ticker_results = {"RR"}
               /\ card.ticker_results["RR"].agent_verdict = "no_increase"
               /\ card.ticker_results["RR"].evidence_checked = 0
               /\ card.summary.total = 1
               /\ card.summary.pass_rate = 1000

(***************************************************************************)
(* C28: two runs on one Messenger.                                         *)
(***************************************************************************)
RECURSIVE AloneVerify(_, _, _, _)
\* The loop over the decisions of a run that nothing interleaves with: acc
\* holds the results written so far and their order, outcomes what the
\* searches still to come answer.
AloneVerify(decisions, outcomes, cfg, acc) ==
    IF decisions = <<>> THEN acc
    ELSE LET decision == Head(decisions)
             ticker == DictGet(decision, "ticker")
         IN  IF Falsy(ticker)
             THEN AloneVerify(Tail(decisions), outcomes, cfg, acc)
             ELSE AloneVerify(Tail(decisions), Tail(outcomes), cfg,
                    [results |-> DictSet(acc.results, ticker,
                                         TickerResult(decision, Head(outcomes).results, cfg)),
                     order |-> IF ticker \in DOMAIN acc.results
                               THEN acc.order
                               ELSE Append(acc.order, ticker)])

\* The scorecard of a run that has a Messenger of its own, with nothing
\* stored in it, and gets the given reply and search answers.
AloneScorecard(r, request, stream, outcomes) ==
    LET cfg == EvalConfig(request.config)
        url == HttpUrlStr(request.participants["agent"])
        t == TalkReply(EmptyDict, url, TRUE, OutboundContext(EmptyDict, url, TRUE), stream)
        v == AloneVerify(ExtractDecisions(t.result).decisions, outcomes, cfg,
                         [results |-> EmptyDict, order |-> <<>>])
        total == Cardinality(DOMAIN v.results)
        passed == PassedCount(v.results)
    IN  ResultArtifact(RunId(r), v.results, v.order, PassRate(passed, total), passed, total)

SearchAnswers(r) == [k \in 1..Len(ev[r].searches) |-> ev[r].searches[k].outcome]

\* C28: when two Evaluator runs go through one Messenger and their steps
\* interleave in any order, every call either run puts on the wire carries
\* no context id, whatever the other run stored or reset in the session map
\* meanwhile, and the scorecard of each run is the one the same request,
\* reply and search answers give a run with a Messenger of its own.
C28_SharedMessengerRunsIndependent ==
    /\ \A r \in DOMAIN ev :
         /\ ev[r].outbound # NoMessage => ev[r].outbound.context_id = None
         /\ Scored(r) =>
               ev[r].artifacts
                 = <<AloneScorecard(r, ev[r].request, ev[r].reply_stream, SearchAnswers(r))>>
    /\ \A k \in 1..Len(m_log) : IsTalk(m_log[k]) => m_log[k].sent = None

\* Both runs completed with different scorecards; both replies were stored
\* under the agent's endpoint (ctx-1, then ctx-2 over it) before the first
\* run to finish reset the map, and the other run finished after that reset.
C28_Witness ==
    /\ DOMAIN ev = {1, 2}
    /\ \A r \in DOMAIN ev : ev[r].pc = "completed" /\ Len(ev[r].searches) >= 1
    /\ ev[1].artifacts # ev[2].artifacts
    /\ Len(m_log) = 4
    /\ IsTalk(m_log[1]) /\ m_log[1].ok /\ m_log[1].reply_ctx = "ctx-1"
    /\ IsTalk(m_log[2]) /\ m_log[2].ok /\ m_log[2].reply_ctx = "ctx-2"
    /\ m_log[3] = ResetEntry
    /\ m_log[4] = ResetEntry
    /\ context_ids = EmptyDict

====
